---- MODULE Spec2Model ----
(***************************************************************************)
(* Model of tvbingefriend-episode-service: the batched bulk import         *)
(* (EpisodeService.start_get_all_shows_episodes / _process_shows_batch),   *)
(* the queue handler (EpisodeService.get_show_episodes), the episode       *)
(* upsert (EpisodeRepository.upsert_episode) and the enqueueing of updated *)
(* shows (EpisodeService.get_updates).                                     *)
(*                                                                         *)
(* MonitoringService, RetryService and db_session_manager are imported by  *)
(* the service but their source is not part of src/; they are modelled     *)
(* from spec.md sections 4.4 - 4.6 and from their tests.                   *)
(***************************************************************************)
EXTENDS Integers, Sequences, FiniteSets, Bags, TLC

VARIABLES
    catalog,        \* rows of SHOW_IDS_TABLE with PartitionKey 'show', in query order
    default_batch_size, \* the batch_size default of _process_shows_batch
    started,        \* start_get_all_shows_episodes has been called
    queue,          \* EPISODES_QUEUE: a bag of messages
    tracking,       \* the Import Record in the tracking store, or NoRecord
    redelivered,    \* deliveries that left their message in the queue
    lastBatch,      \* what the most recent _process_shows_batch call did
    unitsSent,      \* unit messages enqueued so far by the bulk import
    contsSent,      \* continuation messages enqueued so far
    firstFailed,    \* batch_number of the first batch call that raised, or -1
    contAfterFailure, \* a continuation for a later batch was enqueued after it
    sink,           \* the episodes table: a set of rows
    unit,           \* the delivery of a unit message that is being handled
    lastRec,        \* what handling the most recent episode record did
    handlers,       \* the invocations of the queue handler that run concurrently
    ledger,         \* what the concurrent invocations have done so far
    lastOp,         \* the most recent call of the Progress Tracker
    lastPass,       \* one pass of the loop over episodes, taken alone
    retryLog,       \* the table of Retry Attempt Records
    lastRetry,      \* the most recent run of a function wrapped by with_retry
    lastUpdates,    \* the most recent call of get_updates
    lastSweep       \* the most recent call of retry_failed_operations

vars == <<catalog, default_batch_size, started, queue, tracking, redelivered,
          lastBatch, unitsSent, contsSent, firstFailed,
          contAfterFailure, sink, unit, lastRec, handlers, ledger, lastOp,
          lastPass, retryLog, lastRetry, lastUpdates, lastSweep>>

batchVars == <<catalog, default_batch_size, started, lastBatch, unitsSent,
               contsSent, firstFailed, contAfterFailure>>

unitVars == <<sink, unit, lastRec>>

concVars == <<handlers, ledger, lastOp>>

callVars == <<lastPass, retryLog, lastRetry, lastUpdates, lastSweep>>

---------------------------------------------------------------------------
(* Bounds of the model *)

MaxCatalog == 3
MaxBatchSize == 2
MaxRedeliver == 1
MaxEpisodes == 2
MaxHandlers == 2
MaxCount == 2
MaxOperations == 3

---------------------------------------------------------------------------
(* Values *)

NoRowKey == 0
Absent == -1
NoAction == "none"
ProcessBatch == "process_batch"
NoImport == "none"
ImportId == "episodes_import_1"

IN_PROGRESS == "in_progress"
COMPLETED == "completed"
FAILED == "failed"

NoRecord == [Status |-> "absent", CompletedEpisodes |-> 0, FailedEpisodes |-> 0,
             LastProcessedEpisodeId |-> Absent, EstimatedEpisodes |-> 0]

NoFault == 0
EnumFault == -1

\* The catalogs the model draws from: row i carries RowKey i or no RowKey.
Catalogs ==
    UNION { { c \in [1..n -> 0..MaxCatalog] :
                \A i \in 1..n : c[i] = i \/ c[i] = NoRowKey } : n \in 0..MaxCatalog }

---------------------------------------------------------------------------
(* Messages of EPISODES_QUEUE *)

ShowMessage(show_id, import_id) ==
    [action |-> NoAction, import_id |-> import_id, batch_number |-> 0,
     batch_size |-> 0, show_id |-> show_id]

\* A continuation message that names the batch that was just processed.
NextBatchMessageRepeating(import_id, batch_number, batch_size) ==
    [action |-> ProcessBatch, import_id |-> import_id,
     batch_number |-> batch_number - 1, batch_size |-> batch_size,
     show_id |-> Absent]

\* A continuation message that names the batch after the one it is given.
NextBatchMessageSkipping(import_id, batch_number, batch_size) ==
    [action |-> ProcessBatch, import_id |-> import_id,
     batch_number |-> batch_number + 1, batch_size |-> batch_size,
     show_id |-> Absent]

NextBatchMessage(import_id, batch_number, batch_size) ==
    [action |-> ProcessBatch, import_id |-> import_id,
     batch_number |-> batch_number, batch_size |-> batch_size, show_id |-> Absent]

\* A test of the action that lets a message with a show_id through as a unit
\* message.
IsBatchMessageNoShowId(m) == m.action = ProcessBatch /\ m.show_id = Absent

IsBatchMessage(m) == m.action = ProcessBatch

\* A message whose body is no JSON: it has no fields to read.
MalformedMessage ==
    [action |-> "malformed", import_id |-> NoImport, batch_number |-> 0,
     batch_size |-> 0, show_id |-> Absent]

RECURSIVE SeqToBag(_)
SeqToBag(s) ==
    IF s = <<>> THEN EmptyBag ELSE SetToBag({Head(s)}) (+) SeqToBag(Tail(s))

---------------------------------------------------------------------------
(* Progress Tracker (MonitoringService) *)

\* start_show_episodes_import_tracking: upserts a fresh record.
StartTracking(estimated) ==
    [Status |-> IN_PROGRESS, CompletedEpisodes |-> 0, FailedEpisodes |-> 0,
     LastProcessedEpisodeId |-> Absent, EstimatedEpisodes |-> estimated]

\* complete_show_episodes_import: point-read, set Status, write back; a store
\* error is logged and swallowed, an absent record is not created.
CompleteImport(rec, final_status, store_ok) ==
    IF store_ok /\ rec # NoRecord THEN [rec EXCEPT !.Status = final_status] ELSE rec

\* The most recent call of the Progress Tracker: the operation, the record it
\* found, its arguments, whether the tracking store answered and whether the
\* call raised.
NoOp ==
    [op |-> "none", before |-> NoRecord, episode_id |-> Absent, success |-> TRUE,
     final_status |-> "none", estimated |-> 0, store_ok |-> TRUE,
     raised |-> FALSE]

---------------------------------------------------------------------------
(* EpisodeService._process_shows_batch *)

\* skip_count computed without the multiplication.
SkipCountBatchNumber(batch_number, batch_size) == batch_number

SkipCount(batch_number, batch_size) == batch_number * batch_size

\* A collection loop in which a row without RowKey takes no slot of the batch.
RECURSIVE CollectBatchKeyed(_, _, _, _, _)
CollectBatchKeyed(entities, current_count, skip_count, batch_size, batch_entities) ==
    IF entities = <<>> THEN batch_entities
    ELSE IF current_count < skip_count
         THEN CollectBatchKeyed(Tail(entities), current_count + 1, skip_count,
                                batch_size, batch_entities)
    ELSE IF Head(entities) = NoRowKey
         THEN CollectBatchKeyed(Tail(entities), current_count + 1, skip_count,
                                batch_size, batch_entities)
    ELSE IF Len(batch_entities) < batch_size
         THEN CollectBatchKeyed(Tail(entities), current_count + 1, skip_count,
                                batch_size, Append(batch_entities, Head(entities)))
    ELSE batch_entities

\* A collection loop that stops one entity late.
RECURSIVE CollectBatchInclusive(_, _, _, _, _)
CollectBatchInclusive(entities, current_count, skip_count, batch_size, batch_entities) ==
    IF entities = <<>> THEN batch_entities
    ELSE IF current_count < skip_count
         THEN CollectBatchInclusive(Tail(entities), current_count + 1, skip_count,
                                    batch_size, batch_entities)
    ELSE IF Len(batch_entities) <= batch_size
         THEN CollectBatchInclusive(Tail(entities), current_count + 1, skip_count,
                                    batch_size, Append(batch_entities, Head(entities)))
    ELSE batch_entities

\* The loop over entities_iter: skip skip_count entities, then collect
\* entities until batch_size of them are held.
RECURSIVE CollectBatch(_, _, _, _, _)
CollectBatch(entities, current_count, skip_count, batch_size, batch_entities) ==
    IF entities = <<>> THEN batch_entities
    ELSE IF current_count < skip_count
         THEN CollectBatch(Tail(entities), current_count + 1, skip_count,
                           batch_size, batch_entities)
    ELSE IF Len(batch_entities) < batch_size
         THEN CollectBatch(Tail(entities), current_count + 1, skip_count,
                           batch_size, Append(batch_entities, Head(entities)))
    ELSE batch_entities

\* The loop over batch_entities: an entity without RowKey is skipped, every
\* other one is uploaded; the upload call numbered `fault` raises.
RECURSIVE QueueShows(_, _, _, _, _)
QueueShows(batch_entities, import_id, fault, calls, sent) ==
    IF batch_entities = <<>> THEN [raised |-> FALSE, calls |-> calls, sent |-> sent]
    ELSE IF Head(batch_entities) = NoRowKey
         THEN QueueShows(Tail(batch_entities), import_id, fault, calls, sent)
    ELSE IF fault = calls + 1
         THEN [raised |-> TRUE, calls |-> calls + 1, sent |-> sent]
    ELSE QueueShows(Tail(batch_entities), import_id, fault, calls + 1,
                    Append(sent, ShowMessage(Head(batch_entities), import_id)))

\* has_more true for every batch that found something.
HasMoreNonEmpty(batch_entities, batch_size) == Len(batch_entities) >= 1

HasMore(batch_entities, batch_size) == Len(batch_entities) = batch_size

\* The final status handed to complete_show_episodes_import when the batch
\* is empty, and in the except clause.
\* An empty batch that leaves the import as it is.
OnEmptyBatchNothing == "none"

OnEmptyBatch == COMPLETED

\* An except clause that re-raises without marking the import.
OnExceptionNothing == "none"

OnException == FAILED

\* What one call does: the messages it uploads (in order), whether it raises,
\* and the final status it hands to complete_show_episodes_import.
ProcessShowsBatch(entities, import_id, batch_number, batch_size, fault) ==
    LET base == [import_id |-> import_id, batch_number |-> batch_number,
                 batch_size |-> batch_size, enumerated |-> FALSE, collected |-> 0,
                 keyed |-> 0, calls |-> 0, sent |-> <<>>, has_more |-> FALSE,
                 failed_upload |-> "none", raised |-> FALSE, complete |-> "none"]
    IN
    IF fault = EnumFault
    THEN [base EXCEPT !.raised = TRUE, !.complete = OnException]
    ELSE
    LET batch_entities ==
            CollectBatch(entities, 0, SkipCount(batch_number, batch_size),
                         batch_size, <<>>)
        found == [base EXCEPT !.enumerated = TRUE,
                              !.collected = Len(batch_entities),
                              !.keyed = Cardinality({i \in 1..Len(batch_entities) :
                                                      batch_entities[i] # NoRowKey})]
    IN
    IF batch_entities = <<>>
    THEN [found EXCEPT !.complete = OnEmptyBatch]
    ELSE
    LET q == QueueShows(batch_entities, import_id, fault, 0, <<>>)
        has_more == HasMore(batch_entities, batch_size)
    IN
    IF q.raised
    THEN [found EXCEPT !.calls = q.calls, !.sent = q.sent, !.failed_upload = "unit",
                       !.raised = TRUE, !.complete = OnException]
    ELSE IF ~has_more
    THEN [found EXCEPT !.calls = q.calls, !.sent = q.sent]
    ELSE IF fault = q.calls + 1
    THEN [found EXCEPT !.calls = q.calls + 1, !.sent = q.sent, !.has_more = TRUE,
                       !.failed_upload = "continuation",
                       !.raised = TRUE, !.complete = OnException]
    ELSE [found EXCEPT !.calls = q.calls + 1, !.has_more = TRUE,
                       !.sent = Append(q.sent,
                           NextBatchMessage(import_id, batch_number + 1, batch_size))]

Faults == {NoFault, EnumFault} \cup (1..(MaxBatchSize + 1))

\* The state before any batch call has been made.
NoCall ==
    [call |-> [import_id |-> NoImport, batch_number |-> -1, batch_size |-> 0,
               enumerated |-> FALSE, collected |-> 0, keyed |-> 0, calls |-> 0,
               sent |-> <<>>, has_more |-> FALSE, failed_upload |-> "none",
               raised |-> FALSE, complete |-> "none"],
     store_ok |-> TRUE, status_after |-> "absent"]

\* The effect of a call on the history variables; rec is the
\* Import Record the call leaves behind.
BatchEffects(r, rec, store_ok) ==
    /\ tracking' = rec
    /\ lastBatch' = [call |-> r, store_ok |-> store_ok, status_after |-> rec.Status]
    /\ unitsSent' = unitsSent + Cardinality({i \in 1..Len(r.sent) : ~IsBatchMessage(r.sent[i])})
    /\ contsSent' = contsSent + Cardinality({i \in 1..Len(r.sent) : IsBatchMessage(r.sent[i])})
    /\ firstFailed' = IF r.raised /\ firstFailed = -1 THEN r.batch_number
                      ELSE firstFailed
    /\ contAfterFailure' =
          (contAfterFailure \/
             (firstFailed # -1 /\
              \E i \in 1..Len(r.sent) :
                  IsBatchMessage(r.sent[i]) /\ r.sent[i].batch_number > firstFailed))

---------------------------------------------------------------------------
(* EpisodeService.start_get_all_shows_episodes *)

\* An Import Record that an earlier import with the same id has left.
PriorRecord ==
    [Status |-> COMPLETED, CompletedEpisodes |-> 2, FailedEpisodes |-> 1,
     LastProcessedEpisodeId |-> 2, EstimatedEpisodes |-> -1]

\* Tracking started only for an import that has no record yet.
TrackImportStartIfAbsent(prior) ==
    IF prior = NoRecord THEN StartTracking(-1) ELSE prior

\* The record in the tracking store after the call of
\* start_show_episodes_import_tracking(import_id, -1, -1), whatever record
\* was there before.
TrackImportStart(prior) == StartTracking(-1)

\* Starts tracking with estimated_episodes = -1, runs batch 0 with the default
\* batch size; when the batch raises, the except clause marks the import
\* FAILED once more and re-raises.
StartImport ==
    /\ ~started
    /\ started' = TRUE
    /\ \E fault \in Faults, ok1 \in BOOLEAN, ok2 \in BOOLEAN :
         LET r == ProcessShowsBatch(catalog, ImportId, 0, default_batch_size, fault)
             rec0 == TrackImportStart(tracking)
             rec1 == IF r.complete = "none" THEN rec0
                     ELSE CompleteImport(rec0, r.complete, ok1)
             rec2 == IF r.raised THEN CompleteImport(rec1, FAILED, ok2) ELSE rec1
         IN /\ (fault # NoFault => r.raised)
            /\ (r.complete = "none" => ok1)
            /\ (~r.raised => ok2)
            /\ queue' = queue (+) SeqToBag(r.sent)
            /\ BatchEffects(r, rec2, IF r.raised THEN ok1 \/ ok2 ELSE ok1)
    /\ lastOp' = [NoOp EXCEPT !.op = "start", !.before = tracking,
                              !.estimated = -1]
    /\ UNCHANGED <<catalog, default_batch_size, redelivered, handlers, ledger>>
    /\ UNCHANGED unitVars
    /\ UNCHANGED callVars

---------------------------------------------------------------------------
(* EpisodeService.get_show_episodes, the branch for action = process_batch *)

\* One delivery of a continuation message. A delivery whose handler raises
\* leaves the message to the queue platform, which delivers it again until
\* its delivery budget is used up; a delivery that returns may be repeated
\* too (at-least-once delivery).
HandleBatchMessage(m) ==
    /\ BagIn(m, queue)
    /\ IsBatchMessage(m)
    /\ \E fault \in Faults, store_ok \in BOOLEAN, again \in BOOLEAN :
         LET r == ProcessShowsBatch(catalog, m.import_id, m.batch_number,
                                    m.batch_size, fault)
             rec == IF r.complete = "none" THEN tracking
                    ELSE CompleteImport(tracking, r.complete, store_ok)
             stays == redelivered < MaxRedeliver /\ (r.raised \/ again)
         IN /\ (fault # NoFault => r.raised)
            /\ (r.complete = "none" => store_ok)
            /\ (again => stays /\ ~r.raised)
            /\ queue' = (IF stays THEN queue ELSE queue (-) SetToBag({m}))
                          (+) SeqToBag(r.sent)
            /\ redelivered' = redelivered + (IF stays THEN 1 ELSE 0)
            /\ BatchEffects(r, rec, store_ok)
    /\ UNCHANGED <<catalog, default_batch_size, started>>
    /\ UNCHANGED unitVars
    /\ UNCHANGED callVars
    /\ UNCHANGED concVars

---------------------------------------------------------------------------
(* Episode records returned by TVMazeAPI.get_episodes *)

\* An episode is a mapping from keys to values; << >> stands for an entry
\* that is None or empty. The link of an episode to its show is a path
\* prefix and the characters after it (digits, or -1 for another character).
ShowsPrefix == "/shows/"

Href(prefix, tail) == [prefix |-> prefix, tail |-> tail]

EpisodeRecords ==
    { << >>,
      [id |-> 1, name |-> "Pilot"],
      [id |-> 1, name |-> "Pilot (rerun)", season |-> 1, show |-> [id |-> 5]],
      [id |-> 2, name |-> "Two", _links |-> [show |-> [href |-> Href(ShowsPrefix, <<7>>)]]],
      [name |-> "No id", season |-> 1] }

ParentIds == {1, 5, 7}

Has(d, key) == key \in DOMAIN d

\* The columns of the Episode model.
EpisodeColumns ==
    {"id", "show_id", "url", "name", "season", "number", "type", "airdate",
     "airtime", "airstamp", "runtime", "rating", "image", "summary", "_links"}

---------------------------------------------------------------------------
(* EpisodeRepository.upsert_episode *)

\* insert_values with the two assignments crossed: id from the show, show_id
\* from the episode.
InsertValuesCrossed(episode, show_id) ==
    [key \in ((DOMAIN episode) \cap EpisodeColumns) \cup {"id", "show_id"} |->
        IF key = "id" THEN show_id
        ELSE IF key = "show_id" THEN episode.id
        ELSE episode[key]]

\* The episode's items that are columns, with id and show_id set.
InsertValues(episode, show_id) ==
    [key \in ((DOMAIN episode) \cap EpisodeColumns) \cup {"id", "show_id"} |->
        IF key = "id" THEN episode.id
        ELSE IF key = "show_id" THEN show_id
        ELSE episode[key]]

UpdateValues(insert_values) ==
    [key \in (DOMAIN insert_values) \ {"id"} |-> insert_values[key]]

\* A plain INSERT into a table whose key is generated: every call adds a row
\* under the next free id.
ExecuteInsertAutoIncrement(rows, insert_values, update_values) ==
    rows \cup {[insert_values EXCEPT !.id = Cardinality(rows) + 1]}

\* INSERT ... ON DUPLICATE KEY UPDATE on the primary key id: a row with the
\* id gets the update values, its other columns are kept; without such a row
\* the insert values become a new row.
ExecuteUpsert(rows, insert_values, update_values) ==
    IF \E row \in rows : row.id = insert_values.id
    THEN { IF row.id = insert_values.id
           THEN [key \in (DOMAIN row) \cup (DOMAIN update_values) |->
                    IF key \in DOMAIN update_values THEN update_values[key]
                    ELSE row[key]]
           ELSE row : row \in rows }
    ELSE rows \cup {insert_values}

\* An episode without a (truthy) id is logged and left out.
HasEpisodeId(episode) == Has(episode, "id") /\ episode.id # 0

\* execute and flush either take effect or raise; the repository logs what
\* they raise and returns normally.
UpsertEpisode(rows, episode, show_id, db_ok) ==
    IF ~HasEpisodeId(episode) THEN rows
    ELSE IF db_ok
         THEN ExecuteUpsert(rows, InsertValues(episode, show_id),
                            UpdateValues(InsertValues(episode, show_id)))
    ELSE rows

---------------------------------------------------------------------------
(* Progress Tracker: update_episode_import_progress *)

\* A progress update that creates the record it does not find.
UpdateProgressCreates(rec, episode_id, success, store_ok) ==
    IF ~store_ok THEN rec
    ELSE LET r == IF rec = NoRecord THEN StartTracking(-1) ELSE rec IN
         IF success
         THEN [r EXCEPT !.CompletedEpisodes = @ + 1,
                        !.LastProcessedEpisodeId = episode_id]
         ELSE [r EXCEPT !.FailedEpisodes = @ + 1,
                        !.LastProcessedEpisodeId = episode_id]

\* A progress update that counts every outcome as a success.
UpdateProgressAlwaysCompleted(rec, episode_id, success, store_ok) ==
    IF ~store_ok \/ rec = NoRecord THEN rec
    ELSE [rec EXCEPT !.CompletedEpisodes = @ + 1,
                     !.LastProcessedEpisodeId = episode_id]

\* A progress update that takes one off the counter.
UpdateProgressDecrement(rec, episode_id, success, store_ok) ==
    IF ~store_ok \/ rec = NoRecord THEN rec
    ELSE IF success
         THEN [rec EXCEPT !.CompletedEpisodes = @ - 1,
                          !.LastProcessedEpisodeId = episode_id]
    ELSE [rec EXCEPT !.FailedEpisodes = @ - 1,
                     !.LastProcessedEpisodeId = episode_id]

\* An update that counts the outcome in both counters.
UpdateProgressBoth(rec, episode_id, success, store_ok) ==
    IF ~store_ok \/ rec = NoRecord THEN rec
    ELSE [rec EXCEPT !.CompletedEpisodes = @ + 1,
                     !.FailedEpisodes = @ + 1,
                     !.LastProcessedEpisodeId = episode_id]

\* Point-read, increment one counter, set the last processed id, write the
\* record back; an absent record is logged and not created, a store error is
\* logged and swallowed.
UpdateProgress(rec, episode_id, success, store_ok) ==
    IF ~store_ok \/ rec = NoRecord THEN rec
    ELSE IF success
         THEN [rec EXCEPT !.CompletedEpisodes = @ + 1,
                          !.LastProcessedEpisodeId = episode_id]
    ELSE [rec EXCEPT !.FailedEpisodes = @ + 1,
                     !.LastProcessedEpisodeId = episode_id]

---------------------------------------------------------------------------
(* EpisodeService.get_show_episodes: upsert_with_retry *)

DatabaseWriteAttempts == 3

Falsy(n) == n = 0 \/ n = Absent

\* episode.get('show', {}).get('id')
EmbeddedShowId(episode) ==
    IF Has(episode, "show") /\ Has(episode.show, "id") THEN episode.show.id ELSE Absent

\* int() of the characters after '/shows/': their decimal value, or Absent
\* when one of them is no digit (ValueError).
RECURSIVE DecimalValue(_, _)
DecimalValue(chars, acc) ==
    IF chars = <<>> THEN acc
    ELSE IF Head(chars) \notin 0..9 THEN Absent
    ELSE DecimalValue(Tail(chars), acc * 10 + Head(chars))

LinkedShowId(episode) ==
    IF Has(episode, "_links") /\ Has(episode._links, "show")
       /\ Has(episode._links.show, "href")
    THEN LET show_link == episode._links.show.href IN
         IF show_link.prefix = ShowsPrefix /\ show_link.tail # <<>>
         THEN DecimalValue(show_link.tail, 0)
         ELSE Absent
    ELSE Absent

\* A key whose value is null: .get on it raises AttributeError. The embedded
\* show is looked at first, the link only when the show gave no id.
Null == [null |-> TRUE]

NullReference(episode) ==
    \/ Has(episode, "show") /\ episode.show = Null
    \/ /\ Falsy(EmbeddedShowId(episode))
       /\ Has(episode, "_links")
       /\ \/ episode._links = Null
          \/ Has(episode._links, "show") /\ episode._links.show = Null

\* A resolution that looks at the link before the embedded show.
ResolveShowIdLinkFirst(episode, show_id) ==
    IF ~Falsy(LinkedShowId(episode)) THEN LinkedShowId(episode)
    ELSE IF ~Falsy(EmbeddedShowId(episode)) THEN EmbeddedShowId(episode)
    ELSE show_id

\* The show id an episode is stored under: embedded, else linked, else the
\* show_id of the message.
ResolveShowId(episode, show_id) ==
    IF ~Falsy(EmbeddedShowId(episode)) THEN EmbeddedShowId(episode)
    ELSE IF ~Falsy(LinkedShowId(episode)) THEN LinkedShowId(episode)
    ELSE show_id

AttemptOutcomes == {"ok", "execute_error", "session_error"}

\* One run of the body of upsert_with_retry. The session manager raises on
\* "session_error"; execute or flush raise inside the repository on
\* "execute_error".
UpsertAttempt(rows, episode, show_id, outcome) ==
    LET episode_show_id == ResolveShowId(episode, show_id)
        reaches_db == ~Falsy(episode_show_id) /\ HasEpisodeId(episode)
    IN
    IF outcome = "session_error"
    THEN [rows |-> rows, raised |-> TRUE, wrote |-> FALSE, db_error |-> TRUE]
    ELSE IF NullReference(episode)
    THEN [rows |-> rows, raised |-> TRUE, wrote |-> FALSE, db_error |-> FALSE]
    ELSE IF Falsy(episode_show_id)
    THEN [rows |-> rows, raised |-> FALSE, wrote |-> FALSE, db_error |-> FALSE]
    ELSE [rows |-> UpsertEpisode(rows, episode, episode_show_id, outcome = "ok"),
          raised |-> FALSE,
          wrote |-> reaches_db /\ outcome = "ok",
          db_error |-> reaches_db /\ outcome = "execute_error"]

\* RetryService.with_retry: call again after an exception until max_attempts
\* calls have been made, then re-raise; every failed call is logged.
RECURSIVE RunWithRetry(_, _, _, _, _, _)
RunWithRetry(rows, episode, show_id, outcomes, attempt, max_attempts) ==
    LET a == UpsertAttempt(rows, episode, show_id, outcomes[attempt]) IN
    IF ~a.raised
    THEN [rows |-> a.rows, raised |-> FALSE, attempts |-> attempt,
          logged |-> attempt - 1, wrote |-> a.wrote, db_error |-> a.db_error]
    ELSE IF attempt < max_attempts
    THEN RunWithRetry(rows, episode, show_id, outcomes, attempt + 1, max_attempts)
    ELSE [rows |-> rows, raised |-> TRUE, attempts |-> attempt,
          logged |-> attempt, wrote |-> FALSE, db_error |-> a.db_error]

\* The outcomes of the calls of one record; outcomes after the call that
\* ends the retries are never used.
OutcomeSeqs ==
    { o \in [1..DatabaseWriteAttempts -> AttemptOutcomes] :
        \A i \in 1..DatabaseWriteAttempts :
            o[i] # "session_error" =>
                \A j \in (i + 1)..DatabaseWriteAttempts : o[j] = "ok" }

---------------------------------------------------------------------------
(* EpisodeService.get_show_episodes: handling a unit message *)

NoDelivery ==
    [active |-> FALSE, outcome |-> "none",
     msg |-> ShowMessage(Absent, NoImport), left |-> 0,
     persisted |-> 0, failed |-> 0, store_fault |-> FALSE,
     completed_delta |-> 0, failed_delta |-> 0, api_calls |-> 0,
     fetch |-> "none", skipped |-> 0]

NoEpisode ==
    [kind |-> "none", attempts |-> 0, db_error |-> FALSE, wrote |-> FALSE,
     tracked |-> "none", empty |-> FALSE, has_id |-> FALSE, exhausted |-> FALSE]

\* A loop that hands every entry of the answer to upsert_with_retry.
ValidRecordAlways(episode) == TRUE

\* if not episode or not isinstance(episode, dict): the entry is logged and
\* the loop goes to the next one.
ValidRecord(episode) == episode # << >>

\* A handler that reports to the tracker whether or not the message has an
\* import_id.
IsTrackedAlways(m) == TRUE

IsTracked(m) == m.import_id # NoImport

\* A handler that reads a body that is no JSON as an empty mapping.
ParseFailsIgnored(m) == FALSE

\* message.get_json() raises on a body that is no JSON; the except clause
\* logs and re-raises.
ParseFails(m) == m = MalformedMessage

\* An except clause that logs the exception of get_episodes and returns.
OnFetchErrorReturn == "empty"

\* The exception of get_episodes is logged and re-raised.
OnFetchError == "raised"

\* A handler that raises when there is nothing to store.
OnNoEpisodesRaise == "raised"

\* if episodes: ... else: 'No episodes returned' is logged and the handler
\* returns.
OnNoEpisodes == "empty"

\* A handler that goes on without looking for the show_id.
MissingShowIdIgnored(m) == FALSE

\* if show_id is None: the message is logged and the handler returns.
MissingShowId(m) == m.show_id = Absent

\* The end of a delivery: the message leaves the queue unless the platform
\* delivers it again (after a raise, or as a duplicate).
FinishDelivery(u, outcome, again) ==
    LET stays == redelivered < MaxRedeliver /\ (outcome = "raised" \/ again) IN
    /\ again => stays /\ outcome # "raised"
    /\ queue' = IF stays THEN queue ELSE queue (-) SetToBag({u.msg})
    /\ redelivered' = redelivered + (IF stays THEN 1 ELSE 0)
    /\ unit' = [u EXCEPT !.active = FALSE, !.outcome = outcome]

\* A delivery of a unit message up to the answer of TVMazeAPI.get_episodes:
\* a body that is no JSON raises, a message without show_id is dropped, an exception of the API is raised,
\* None or an empty list end the delivery.
ReceiveUnit(m) ==
    /\ ~unit.active
    /\ BagIn(m, queue)
    /\ ~IsBatchMessage(m)
    /\ LET u == [NoDelivery EXCEPT !.msg = m]
           called == [u EXCEPT !.api_calls = 1]
       IN
       \/ /\ ParseFails(m)
          /\ FinishDelivery(u, "raised", FALSE)
       \/ /\ ~ParseFails(m)
          /\ MissingShowId(m)
          /\ FinishDelivery(u, "dropped", FALSE)
       \/ /\ ~ParseFails(m)
          /\ ~MissingShowId(m)
          /\ \E again \in BOOLEAN :
                FinishDelivery([called EXCEPT !.fetch = "error"], OnFetchError, again)
       \/ /\ ~ParseFails(m)
          /\ ~MissingShowId(m)
          /\ \E again \in BOOLEAN :
                FinishDelivery([called EXCEPT !.fetch = "empty"], OnNoEpisodes, again)
       \/ /\ ~ParseFails(m)
          /\ ~MissingShowId(m)
          /\ \E n \in 1..MaxEpisodes :
                unit' = [called EXCEPT !.active = TRUE, !.left = n,
                                       !.fetch = "records"]
          /\ UNCHANGED <<queue, redelivered>>
    /\ lastRec' = NoEpisode
    /\ UNCHANGED <<tracking, sink>>
    /\ UNCHANGED batchVars
    /\ UNCHANGED callVars
    /\ UNCHANGED concVars

\* One pass of the loop over episodes.
ProcessRecord ==
    /\ unit.active
    /\ \E episode \in EpisodeRecords, outcomes \in OutcomeSeqs :
         LET m == unit.msg
             valid == ValidRecord(episode)
             tracks == valid /\ IsTracked(m) /\ HasEpisodeId(episode)
         IN
         /\ ~valid => outcomes = [i \in 1..DatabaseWriteAttempts |-> "ok"]
         /\ \E r \in {RunWithRetry(sink, episode, m.show_id, outcomes, 1,
                                    DatabaseWriteAttempts)} :
            \E store_ok \in BOOLEAN, again \in BOOLEAN :
            /\ ~tracks => store_ok
            /\ again => unit.left = 1
            /\ \E rec \in {IF tracks
                            THEN UpdateProgress(tracking, episode.id, ~r.raised,
                                                store_ok)
                            ELSE tracking} :
              LET u == [unit EXCEPT
                     !.left = @ - 1,
                     !.persisted = @ + (IF valid /\ r.wrote THEN 1 ELSE 0),
                     !.failed = @ + (IF valid /\ HasEpisodeId(episode) /\ r.db_error
                                     THEN 1 ELSE 0),
                     !.store_fault = @ \/ (tracks /\ ~store_ok),
                     !.skipped = @ + (IF valid THEN 0 ELSE 1),
                     !.completed_delta =
                         @ + rec.CompletedEpisodes - tracking.CompletedEpisodes,
                     !.failed_delta =
                         @ + rec.FailedEpisodes - tracking.FailedEpisodes]
              IN /\ sink' = IF valid THEN r.rows ELSE sink
                 /\ tracking' = rec
                 /\ lastRec' =
                      IF ~valid THEN [NoEpisode EXCEPT !.kind = "skipped",
                                                      !.empty = TRUE]
                      ELSE [kind |-> "handled",
                            attempts |-> r.attempts, db_error |-> r.db_error,
                            wrote |-> r.wrote,
                            tracked |-> IF ~tracks THEN "none"
                                        ELSE IF r.raised THEN "failure" ELSE "success",
                            empty |-> episode = << >>,
                            has_id |-> HasEpisodeId(episode),
                            exhausted |-> r.raised]
                 /\ IF u.left = 0
                    THEN FinishDelivery(u, "ok", again)
                    ELSE /\ unit' = u
                         /\ UNCHANGED <<queue, redelivered>>
    /\ UNCHANGED batchVars
    /\ UNCHANGED callVars
    /\ UNCHANGED concVars

---------------------------------------------------------------------------
(* Concurrent invocations of EpisodeService.get_show_episodes *)

\* The answer of TVMazeAPI.get_episodes for a show, the same at every call.
Response(show_id) ==
    IF show_id = 1
    THEN << [id |-> 1, name |-> "Pilot"],
            [id |-> 1, name |-> "Pilot (rerun)", season |-> 1, show |-> [id |-> 1]] >>
    ELSE IF show_id = 2
    THEN << [id |-> 2, name |-> "Two",
             _links |-> [show |-> [href |-> Href(ShowsPrefix, <<2>>)]]] >>
    ELSE << >>

\* The Progress Tracker call an invocation is in: update_episode_import_progress
\* ("outcome") or complete_show_episodes_import ("complete").
NoJob == [kind |-> "none", id |-> Absent, success |-> TRUE, status |-> "none"]

\* An invocation: where it is (idle, persist, read, write), its message, the
\* index of the episode it is at, its tracker call and the record that call read.
NoHandler ==
    [pc |-> "idle", msg |-> ShowMessage(Absent, NoImport), pos |-> 0,
     job |-> NoJob, seen |-> NoRecord]

\* The running invocations, a bag: invocations are interchangeable, and the
\* host runs at most MaxHandlers of them at a time.
NoHandlers == EmptyBag

\* The running invocations after invocation h has become next (NoHandler
\* when it has ended).
Step(running, h, next) ==
    (running (-) SetToBag({h}))
       (+) (IF next = NoHandler THEN EmptyBag ELSE SetToBag({next}))

NoLedger ==
    [processed |-> 0, overlapped |-> FALSE, store_fault |-> FALSE, raised |-> FALSE]

\* A put of the tracking store that takes effect only when the record is
\* still the one that was read.
StoreWriteIfUnchanged(current, seen, new) == IF current = seen THEN new ELSE current

\* upsert_entity of the tracking store: the record written replaces the one
\* stored, whatever that is.
StoreWrite(current, seen, new) == new

\* A Progress Tracker that lets an error of the tracking store out.
TrackerPropagates == FALSE

\* The Progress Tracker logs an error of the tracking store and returns.
TrackerSwallows == TRUE

\* The record a tracker call writes back, from the record it read.
ApplyJob(job, seen) ==
    IF job.kind = "outcome" THEN UpdateProgress(seen, job.id, job.success, TRUE)
    ELSE CompleteImport(seen, job.status, TRUE)

\* After a tracker call has returned: on to the next episode, or the end of
\* the invocation.
NextRecord(h) ==
    IF h.job.kind = "complete" \/ h.pos >= Len(Response(h.msg.show_id))
    THEN NoHandler
    ELSE [h EXCEPT !.pc = "persist", !.pos = @ + 1, !.job = NoJob, !.seen = NoRecord]

AllOk == [i \in 1..DatabaseWriteAttempts |-> "ok"]

\* A message is delivered to a new invocation; the platform may keep a
\* duplicate of the message in the queue. A continuation message runs
\* _process_shows_batch up to its tracker call, a unit message fetches the
\* episodes of its show.
Deliver(m) ==
    /\ BagCardinality(handlers) < MaxHandlers
    /\ BagIn(m, queue)
    /\ \E again \in BOOLEAN,
          r \in {IF IsBatchMessage(m)
                 THEN ProcessShowsBatch(catalog, m.import_id, m.batch_number,
                                        m.batch_size, NoFault)
                 ELSE NoCall.call} :
         LET sent == IF IsBatchMessage(m) THEN SeqToBag(r.sent) ELSE EmptyBag
         IN /\ again => redelivered < MaxRedeliver
            /\ queue' = (IF again THEN queue ELSE queue (-) SetToBag({m})) (+) sent
            /\ redelivered' = redelivered + (IF again THEN 1 ELSE 0)
            /\ IF IsBatchMessage(m)
               THEN /\ handlers' =
                         Step(handlers, NoHandler,
                              IF r.complete = "none" THEN NoHandler
                              ELSE [NoHandler EXCEPT
                                      !.pc = "read", !.msg = m,
                                      !.job = [NoJob EXCEPT !.kind = "complete",
                                                            !.status = r.complete]])
                    /\ lastBatch' = [call |-> r, store_ok |-> TRUE,
                                     status_after |-> tracking.Status]
                    /\ unitsSent' = unitsSent
                          + Cardinality({i \in 1..Len(r.sent) : ~IsBatchMessage(r.sent[i])})
                    /\ contsSent' = contsSent
                          + Cardinality({i \in 1..Len(r.sent) : IsBatchMessage(r.sent[i])})
               ELSE /\ handlers' =
                         Step(handlers, NoHandler,
                              IF MissingShowId(m) \/ Response(m.show_id) = << >>
                              THEN NoHandler
                              ELSE [NoHandler EXCEPT !.pc = "persist", !.msg = m,
                                                     !.pos = 1])
                    /\ UNCHANGED <<lastBatch, unitsSent, contsSent>>
    /\ UNCHANGED <<catalog, default_batch_size, started, firstFailed,
                   contAfterFailure, tracking, ledger, lastOp>>
    /\ UNCHANGED unitVars
    /\ UNCHANGED callVars

\* The upsert of the episode the invocation is at (upsert_with_retry, the
\* sink taking every statement).
Persist(h) ==
    LET episode == Response(h.msg.show_id)[h.pos]
        tracks == IsTracked(h.msg) /\ HasEpisodeId(episode)
    IN
    /\ BagIn(h, handlers)
    /\ h.pc = "persist"
    /\ \E r \in {RunWithRetry(sink, episode, h.msg.show_id, AllOk, 1,
                               DatabaseWriteAttempts)} :
         /\ sink' = r.rows
         /\ handlers' =
              Step(handlers, h,
                   IF tracks
                   THEN [h EXCEPT !.pc = "read",
                                  !.job = [NoJob EXCEPT !.kind = "outcome",
                                                        !.id = episode.id,
                                                        !.success = ~r.raised]]
                   ELSE NextRecord(h))
    /\ ledger' = [ledger EXCEPT !.processed = @ + (IF tracks THEN 1 ELSE 0)]
    /\ UNCHANGED <<queue, tracking, redelivered, unit, lastRec, lastOp>>
    /\ UNCHANGED batchVars
    /\ UNCHANGED callVars

\* How a tracker call that met an error of the tracking store ends: the
\* tracker swallows it; were it let out, the invocation would raise and the
\* message would go back to the platform.
EndTrackerCall(h, next, store_ok, overlap) ==
    LET raises == ~store_ok /\ ~TrackerSwallows
        back == raises /\ redelivered < MaxRedeliver
    IN
    /\ handlers' = Step(handlers, h, IF raises THEN NoHandler ELSE next)
    /\ ledger' = [ledger EXCEPT !.overlapped = @ \/ overlap,
                                !.store_fault = @ \/ ~store_ok,
                                !.raised = @ \/ raises]
    /\ queue' = IF back THEN queue (+) SetToBag({h.msg}) ELSE queue
    /\ redelivered' = redelivered + (IF back THEN 1 ELSE 0)

\* The point-read of a tracker call; an absent record ends the call without
\* a write.
TrackerRead(h) ==
    /\ BagIn(h, handlers)
    /\ h.pc = "read"
    /\ \E store_ok \in BOOLEAN :
         LET found == store_ok /\ tracking # NoRecord IN
         EndTrackerCall(h,
             IF found THEN [h EXCEPT !.pc = "write", !.seen = tracking]
             ELSE NextRecord(h),
             store_ok,
             found /\ \E v \in BagToSet(handlers (-) SetToBag({h})) : v.pc = "write")
    /\ UNCHANGED <<tracking, unit, lastRec, sink, lastOp>>
    /\ UNCHANGED batchVars
    /\ UNCHANGED callVars

\* The write-back of a tracker call.
TrackerWrite(h) ==
    /\ BagIn(h, handlers)
    /\ h.pc = "write"
    /\ \E store_ok \in BOOLEAN :
         /\ tracking' = IF store_ok
                        THEN StoreWrite(tracking, h.seen, ApplyJob(h.job, h.seen))
                        ELSE tracking
         /\ lastBatch' = IF h.job.kind = "complete"
                         THEN [lastBatch EXCEPT !.store_ok = store_ok,
                                                !.status_after = tracking'.Status]
                         ELSE lastBatch
         /\ EndTrackerCall(h, NextRecord(h), store_ok, FALSE)
    /\ UNCHANGED <<catalog, default_batch_size, started, unitsSent, contsSent,
                   firstFailed, contAfterFailure, unit, lastRec, sink, lastOp>>
    /\ UNCHANGED callVars

---------------------------------------------------------------------------
(* EpisodeService.get_show_episodes: one pass of the loop, taken alone *)

\* What an episode can carry under 'show', with the id it yields.
ShowParts ==
    { [part |-> << >>, yields |-> Absent],
      [part |-> [show |-> [id |-> 5]], yields |-> 5],
      [part |-> [show |-> [id |-> 0]], yields |-> Absent],
      [part |-> [show |-> [name |-> "Show"]], yields |-> Absent],
      [part |-> [show |-> Null], yields |-> Absent] }

\* What an episode can carry under '_links', with the id it yields: the
\* digits after the last '/shows/' when int() takes them and they are not 0.
LinkParts ==
    { [part |-> << >>, yields |-> Absent],
      [part |-> [_links |-> [show |-> [href |-> Href(ShowsPrefix, <<7>>)]]],
       yields |-> 7],
      [part |-> [_links |-> [show |-> [href |-> Href(ShowsPrefix, <<1, 2>>)]]],
       yields |-> 12],
      [part |-> [_links |-> [show |-> [href |-> Href(ShowsPrefix, <<0>>)]]],
       yields |-> Absent],
      [part |-> [_links |-> [show |-> [href |-> Href(ShowsPrefix, <<7, -1>>)]]],
       yields |-> Absent],
      [part |-> [_links |-> [show |-> [href |-> Href(ShowsPrefix, << >>)]]],
       yields |-> Absent],
      [part |-> [_links |-> [show |-> [href |-> Href("/people/", <<7>>)]]],
       yields |-> Absent],
      [part |-> [_links |-> [self |-> [href |-> Href("/episodes/", <<1>>)]]],
       yields |-> Absent],
      [part |-> [_links |-> Null], yields |-> Absent] }

PassBases == { [id |-> 1, name |-> "Pilot"], [name |-> "No id"] }

\* The entries of an answer of get_episodes that pass the test of the loop.
PassInputs ==
    { [episode |-> base @@ s.part @@ l.part, embedded |-> s.yields,
       linked |-> l.yields] :
        base \in PassBases, s \in ShowParts, l \in LinkParts }

NoPass ==
    [done |-> FALSE, msg |-> ShowMessage(Absent, NoImport),
     input |-> [episode |-> << >>, embedded |-> Absent, linked |-> Absent],
     rows_before |-> {}, before |-> NoRecord, store_ok |-> TRUE,
     raised |-> FALSE, attempts |-> 0, wrote |-> FALSE, tracked |-> "none"]

\* The body of the loop for one entry: upsert_with_retry under with_retry,
\* then the report to the Progress Tracker.
HandleEpisode ==
    /\ ~lastPass.done
    /\ \E input \in PassInputs, outcomes \in OutcomeSeqs, store_ok \in BOOLEAN :
         LET episode == input.episode
             m == lastPass.msg
             tracks == IsTracked(m) /\ HasEpisodeId(episode)
         IN
         /\ ~tracks => store_ok
         /\ \E r \in {RunWithRetry(sink, episode, m.show_id, outcomes, 1,
                                    DatabaseWriteAttempts)} :
              /\ sink' = r.rows
              /\ tracking' = IF tracks
                             THEN UpdateProgress(tracking, episode.id, ~r.raised,
                                                 store_ok)
                             ELSE tracking
              /\ lastPass' = [lastPass EXCEPT
                                !.done = TRUE, !.input = input,
                                !.rows_before = sink, !.before = tracking,
                                !.store_ok = store_ok,
                                !.raised = r.raised, !.attempts = r.attempts,
                                !.wrote = r.wrote,
                                !.tracked = IF ~tracks THEN "none"
                                            ELSE IF r.raised THEN "failure"
                                            ELSE "success"]
    /\ UNCHANGED <<queue, redelivered, unit, lastRec>>
    /\ UNCHANGED <<retryLog, lastRetry, lastUpdates, lastSweep>>
    /\ UNCHANGED batchVars
    /\ UNCHANGED concVars

---------------------------------------------------------------------------
(* RetryService.with_retry and MonitoringService.track_retry_attempt *)

RetryErrors == {"timeout", "deadlock"}

RetryIdentifiers == {"episode_1", "episode_2"}

NoRetryLog == {}

NoRetry ==
    [runs |-> 0, identifier |-> "none", max_attempts |-> 0, results |-> << >>,
     invocations |-> 0, logged |-> 0, raised |-> FALSE, value |-> Absent,
     error |-> "none"]

\* upsert_entity: the entity replaces the one with its PartitionKey and
\* RowKey, if there is one.
UpsertEntity(table, entity) ==
    { e \in table : ~(e.PartitionKey = entity.PartitionKey
                       /\ e.RowKey = entity.RowKey) } \cup {entity}

\* track_retry_attempt(operation_type, identifier, attempt, max_attempts,
\* error): one upsert_entity into the retry table, under the RowKey
\* f"{identifier}_{attempt}".
TrackRetryAttempt(log, operation_type, identifier, attempt, max_attempts, error, now) ==
    UpsertEntity(log,
        [PartitionKey |-> operation_type, RowKey |-> <<identifier, attempt>>,
         Identifier |-> identifier, AttemptNumber |-> attempt,
         MaxAttempts |-> max_attempts, ErrorMessage |-> error,
         AttemptTime |-> now])

\* A wrapper that does not log the failure that ends the retries.
RECURSIVE WithRetryLastUnlogged(_, _, _, _, _, _, _)
WithRetryLastUnlogged(operation_type, identifier, results, attempt, max_attempts, log, now) ==
    IF results[attempt] = "ok"
    THEN [raised |-> FALSE, value |-> attempt, error |-> "none",
          invocations |-> attempt, logged |-> attempt - 1, log |-> log]
    ELSE IF attempt < max_attempts
    THEN WithRetryLastUnlogged(operation_type, identifier, results, attempt + 1,
             max_attempts,
             TrackRetryAttempt(log, operation_type, identifier, attempt,
                               max_attempts, results[attempt], now),
             now)
    ELSE [raised |-> TRUE, value |-> Absent, error |-> results[attempt],
          invocations |-> attempt, logged |-> attempt - 1, log |-> log]

\* with_retry(operation_type, max_attempts) around a function: the function
\* is called; what it returns is returned; an exception is logged as an
\* attempt and the function is called again, until max_attempts calls have
\* raised, and then the last exception is raised. results[i] is "ok" when the
\* i-th call returns (its value is i), else the error it raises.
RECURSIVE WithRetry(_, _, _, _, _, _, _)
WithRetry(operation_type, identifier, results, attempt, max_attempts, log, now) ==
    IF results[attempt] = "ok"
    THEN [raised |-> FALSE, value |-> attempt, error |-> "none",
          invocations |-> attempt, logged |-> attempt - 1, log |-> log]
    ELSE LET logged == TrackRetryAttempt(log, operation_type, identifier, attempt,
                                         max_attempts, results[attempt], now)
         IN
         IF attempt < max_attempts
         THEN WithRetry(operation_type, identifier, results, attempt + 1,
                        max_attempts, logged, now)
         ELSE [raised |-> TRUE, value |-> Absent, error |-> results[attempt],
               invocations |-> attempt, logged |-> attempt, log |-> logged]

\* What the calls of a wrapped function can do; calls after the one that
\* returns are never made.
RetryResults(max_attempts) ==
    { results \in [1..max_attempts -> {"ok"} \cup RetryErrors] :
        \A i \in 1..max_attempts :
            results[i] = "ok" => \A j \in (i + 1)..max_attempts : results[j] = "ok" }

\* One run of a function wrapped by with_retry('database_write'), in the
\* first delivery of a message or in a later one.
CallWithRetry ==
    /\ lastRetry.runs <= MaxRedeliver
    /\ \E identifier \in RetryIdentifiers, max_attempts \in 1..DatabaseWriteAttempts :
       \E results \in RetryResults(max_attempts) :
       \E r \in {WithRetry("database_write", identifier, results, 1, max_attempts,
                           retryLog, lastRetry.runs + 1)} :
         /\ retryLog' = r.log
         /\ lastRetry' = [runs |-> lastRetry.runs + 1, identifier |-> identifier,
                          max_attempts |-> max_attempts, results |-> results,
                          invocations |-> r.invocations, logged |-> r.logged,
                          raised |-> r.raised, value |-> r.value,
                          error |-> r.error]
    /\ UNCHANGED <<queue, tracking, redelivered, lastPass, lastUpdates, lastSweep>>
    /\ UNCHANGED unitVars
    /\ UNCHANGED batchVars
    /\ UNCHANGED concVars

---------------------------------------------------------------------------
(* EpisodeService.get_updates *)

NoMetric ==
    [metric_name |-> "none", value |-> 0, threshold_x100 |-> 0,
     is_healthy |-> TRUE]

NoUpdates ==
    [calls |-> 0, fetch |-> "none", updates |-> {}, failing |-> {},
     attempted |-> 0, raised |-> FALSE, metric |-> NoMetric,
     queue_before |-> EmptyBag]

\* The keys of the updates in the order of the loop.
RECURSIVE Ascending(_)
Ascending(S) ==
    IF S = {} THEN << >>
    ELSE LET x == CHOOSE x \in S : \A y \in S : x <= y
         IN <<x>> \o Ascending(S \ {x})

\* A loop without the try around its body: the first exception ends it.
RECURSIVE QueueUpdatesUnguarded(_, _, _)
QueueUpdatesUnguarded(show_ids, failing, acc) ==
    IF show_ids = << >> THEN acc
    ELSE IF Head(show_ids) \in failing
    THEN [acc EXCEPT !.attempted = @ + 1, !.raised = TRUE]
    ELSE QueueUpdatesUnguarded(Tail(show_ids), failing,
             [acc EXCEPT !.attempted = @ + 1,
                         !.sent = Append(@, ShowMessage(Head(show_ids), NoImport)),
                         !.success_count = @ + 1])

\* for show_id, last_updated in updates.items(): the message {"show_id":
\* int(show_id)} is uploaded and counted; an exception of the body is logged
\* and the loop goes on.
RECURSIVE QueueUpdates(_, _, _)
QueueUpdates(show_ids, failing, acc) ==
    IF show_ids = << >> THEN acc
    ELSE IF Head(show_ids) \in failing
    THEN QueueUpdates(Tail(show_ids), failing, [acc EXCEPT !.attempted = @ + 1])
    ELSE QueueUpdates(Tail(show_ids), failing,
             [acc EXCEPT !.attempted = @ + 1,
                         !.sent = Append(@, ShowMessage(Head(show_ids), NoImport)),
                         !.success_count = @ + 1])

\* IsHealthy of a Health Metric Record: the value is at most the threshold.
IsHealthy(value, threshold_x100) == 100 * value <= threshold_x100

\* update_data_health(metric_name, value, threshold): the record of the
\* metric is written with Value, Threshold and IsHealthy; the threshold of
\* get_updates, len(updates) * 0.95, is kept in hundredths.
UpdateDataHealth(metric_name, value, threshold_x100) ==
    [metric_name |-> metric_name, value |-> value,
     threshold_x100 |-> threshold_x100,
     is_healthy |-> IsHealthy(value, threshold_x100)]

\* One call of get_updates: get_show_updates raises, or returns nothing, or
\* returns the updates of some shows; the upload of some of them raises.
GetUpdates ==
    /\ lastUpdates.calls < MaxCount
    /\ LET call == [NoUpdates EXCEPT !.calls = lastUpdates.calls + 1,
                                     !.queue_before = queue]
       IN
       \/ /\ lastUpdates' = [call EXCEPT
                               !.fetch = "error", !.raised = TRUE,
                               !.metric = UpdateDataHealth("updates_failed", 1, 0)]
          /\ UNCHANGED queue
       \/ /\ lastUpdates' = [call EXCEPT !.fetch = "empty"]
          /\ UNCHANGED queue
       \/ \E updates \in (SUBSET (1..MaxCatalog)) \ {{}} :
          \E failing \in SUBSET updates :
          \E r \in {QueueUpdates(Ascending(updates), failing,
                       [attempted |-> 0, sent |-> << >>, success_count |-> 0,
                        raised |-> FALSE])} :
            /\ queue' = queue (+) SeqToBag(r.sent)
            /\ lastUpdates' = [call EXCEPT
                  !.fetch = "updates", !.updates = updates, !.failing = failing,
                  !.attempted = r.attempted, !.raised = r.raised,
                  !.metric = IF r.raised
                             THEN UpdateDataHealth("updates_failed", 1, 0)
                             ELSE UpdateDataHealth("updates_processed",
                                      r.success_count,
                                      95 * Cardinality(updates))]
    /\ UNCHANGED <<tracking, redelivered, lastPass, retryLog, lastRetry, lastSweep>>
    /\ UNCHANGED unitVars
    /\ UNCHANGED batchVars
    /\ UNCHANGED concVars

---------------------------------------------------------------------------
(* EpisodeService.retry_failed_operations *)

\* What retry_failed_operation can do with an operation: return True,
\* return False, or raise.
RetryOutcomes == {"true", "false", "raises"}

\* The lists get_failed_operations can return: each operation with what
\* its retry is going to do.
FailedOperations ==
    UNION { [1..n -> [operation_id : 1..2, retry : RetryOutcomes]] :
              n \in 0..MaxOperations }

NoSweep ==
    [calls |-> 0, failed_operations |-> << >>, retried |-> 0,
     raised |-> FALSE,
     summary |-> [found_failed_operations |-> 0, successful_retries |-> 0,
                  failed_retries |-> 0, retry_attempts |-> << >>]]

\* A loop without the try around its body: an exception of
\* retry_failed_operation leaves retry_failed_operations.
RECURSIVE RetryEachUnguarded(_, _)
RetryEachUnguarded(operations, acc) ==
    IF operations = << >> THEN acc
    ELSE LET operation == Head(operations) IN
         IF operation.retry = "raises"
         THEN [acc EXCEPT !.retried = @ + 1, !.raised = TRUE]
         ELSE RetryEachUnguarded(Tail(operations),
                [acc EXCEPT
                   !.retried = @ + 1,
                   !.summary.successful_retries =
                       @ + (IF operation.retry = "true" THEN 1 ELSE 0),
                   !.summary.failed_retries =
                       @ + (IF operation.retry = "true" THEN 0 ELSE 1),
                   !.summary.retry_attempts =
                       Append(@, [operation |-> operation.operation_id,
                                  success |-> operation.retry = "true",
                                  error |-> FALSE])])

\* for operation in failed_operations: a retry that returns a true value is
\* counted as successful, one that returns a false value as failed; both
\* are appended to retry_attempts; an exception is logged, counted as
\* failed and appended with its error.
RECURSIVE RetryEach(_, _)
RetryEach(operations, acc) ==
    IF operations = << >> THEN acc
    ELSE LET operation == Head(operations) IN
         RetryEach(Tail(operations),
            [acc EXCEPT
               !.retried = @ + 1,
               !.summary.successful_retries =
                   @ + (IF operation.retry = "true" THEN 1 ELSE 0),
               !.summary.failed_retries =
                   @ + (IF operation.retry = "true" THEN 0 ELSE 1),
               !.summary.retry_attempts =
                   Append(@, [operation |-> operation.operation_id,
                              success |-> operation.retry = "true",
                              error |-> operation.retry = "raises"])])

\* One call of retry_failed_operations(operation_type, max_age_hours).
RetryFailedOperations ==
    /\ lastSweep.calls = 0
    /\ \E failed_operations \in FailedOperations :
         lastSweep' =
             RetryEach(failed_operations,
                 [NoSweep EXCEPT
                    !.calls = 1,
                    !.failed_operations = failed_operations,
                    !.summary.found_failed_operations = Len(failed_operations)])
    /\ UNCHANGED <<queue, tracking, redelivered>>
    /\ UNCHANGED <<lastPass, retryLog, lastRetry, lastUpdates>>
    /\ UNCHANGED unitVars
    /\ UNCHANGED batchVars
    /\ UNCHANGED concVars

\* The state in which none of the calls above has been made.
CallsIdle ==
    /\ lastPass = NoPass
    /\ retryLog = NoRetryLog
    /\ lastRetry = NoRetry
    /\ lastUpdates = NoUpdates
    /\ lastSweep = NoSweep

---------------------------------------------------------------------------
(* Specification of the bulk import *)

Init ==
    /\ catalog \in Catalogs
    /\ default_batch_size \in 1..MaxBatchSize
    /\ started = FALSE
    /\ queue = EmptyBag
    /\ tracking \in {NoRecord, PriorRecord}
    /\ redelivered = 0
    /\ lastBatch = NoCall
    /\ unitsSent = 0
    /\ contsSent = 0
    /\ firstFailed = -1
    /\ contAfterFailure = FALSE
    /\ sink = {}
    /\ unit = NoDelivery
    /\ lastRec = NoEpisode
    /\ handlers = NoHandlers
    /\ ledger = NoLedger
    /\ lastOp = NoOp
    /\ CallsIdle

Next ==
    \/ StartImport
    \/ \E m \in BagToSet(queue) : HandleBatchMessage(m)

Spec == Init /\ [][Next]_vars

\* The queue platform hands every message that stays visible in
\* EPISODES_QUEUE to the queue-triggered function: the delivery of
\* continuation messages is weakly fair. Nothing obliges anyone to start an
\* import.
Delivery == \E m \in BagToSet(queue) : HandleBatchMessage(m)

\* No import has run before: the tracking store holds no Import Record.
InitFair == Init /\ tracking = NoRecord

SpecFair == InitFair /\ [][Next]_vars /\ WF_vars(Delivery)

---------------------------------------------------------------------------
(* Specification of the handling of unit messages *)

\* The state after start_get_all_shows_episodes has run on a catalog of one
\* show (one unit message of the import in the queue), or after get_updates
\* has enqueued one show (a unit message without import_id, no Import Record),
\* or with a message without show_id in the queue (with or without the
\* import_id of the import), or with a message whose body is no JSON.
InitUnit ==
    \E tracked \in BOOLEAN, show_id \in {1, Absent}, parsable \in BOOLEAN :
        LET m == IF parsable
                 THEN ShowMessage(show_id, IF tracked THEN ImportId ELSE NoImport)
                 ELSE MalformedMessage
        IN
        /\ ~parsable => (~tracked /\ show_id = Absent)
        /\ catalog = <<1>>
        /\ default_batch_size = 2
        /\ started = tracked
        /\ queue = SetToBag({m})
        /\ tracking = IF tracked THEN StartTracking(-1) ELSE NoRecord
        /\ redelivered = 0
        /\ lastBatch = IF tracked
                       THEN [call |-> ProcessShowsBatch(<<1>>, ImportId, 0, 2, NoFault),
                             store_ok |-> TRUE, status_after |-> IN_PROGRESS]
                       ELSE NoCall
        /\ unitsSent = IF tracked THEN 1 ELSE 0
        /\ contsSent = 0
        /\ firstFailed = -1
        /\ contAfterFailure = FALSE
        /\ sink = {}
        /\ unit = NoDelivery
        /\ lastRec = NoEpisode
        /\ handlers = NoHandlers
        /\ ledger = NoLedger
        /\ lastOp = NoOp
        /\ CallsIdle
    
NextUnit ==
    \/ \E m \in BagToSet(queue) : ReceiveUnit(m)
    \/ ProcessRecord

SpecUnit == InitUnit /\ [][NextUnit]_vars

---------------------------------------------------------------------------
(* Specification of concurrent invocations *)

\* The state after start_get_all_shows_episodes has run on the catalog
\* <<1, 2>> with batch size 2: the unit messages of both shows and the
\* continuation message of batch 1 are in the queue.
InitConc ==
    /\ catalog = <<1, 2>>
    /\ default_batch_size = 2
    /\ started = TRUE
    /\ queue = SeqToBag(ProcessShowsBatch(<<1, 2>>, ImportId, 0, 2, NoFault).sent)
    /\ tracking = StartTracking(-1)
    /\ redelivered = 0
    /\ lastBatch = [call |-> ProcessShowsBatch(<<1, 2>>, ImportId, 0, 2, NoFault),
                    store_ok |-> TRUE, status_after |-> IN_PROGRESS]
    /\ unitsSent = 2
    /\ contsSent = 1
    /\ firstFailed = -1
    /\ contAfterFailure = FALSE
    /\ sink = {}
    /\ unit = NoDelivery
    /\ lastRec = NoEpisode
    /\ handlers = NoHandlers
    /\ ledger = NoLedger
    /\ lastOp = NoOp
    /\ CallsIdle

NextConc ==
    \/ \E m \in BagToSet(queue) : Deliver(m)
    \/ \E h \in BagToSet(handlers) : Persist(h)
    \/ \E h \in BagToSet(handlers) : TrackerRead(h)
    \/ \E h \in BagToSet(handlers) : TrackerWrite(h)

SpecConc == InitConc /\ [][NextConc]_vars

---------------------------------------------------------------------------
(* Specification of the repository alone *)

\* Rows that earlier runs left in the episodes table.
InitialRows ==
    { [id |-> 1, show_id |-> 1, name |-> "Old", runtime |-> 30],
      [id |-> 2, show_id |-> 5, name |-> "Two", season |-> 1] }

InitUpsert ==
    /\ catalog = << >>
    /\ default_batch_size = 1
    /\ started = FALSE
    /\ queue = EmptyBag
    /\ tracking = NoRecord
    /\ redelivered = 0
    /\ lastBatch = NoCall
    /\ unitsSent = 0
    /\ contsSent = 0
    /\ firstFailed = -1
    /\ contAfterFailure = FALSE
    /\ sink \in SUBSET InitialRows
    /\ unit = NoDelivery
    /\ lastRec = NoEpisode
    /\ handlers = NoHandlers
    /\ ledger = NoLedger
    /\ lastOp = NoOp
    /\ CallsIdle

\* One call of EpisodeRepository.upsert_episode.
CallUpsertEpisode ==
    /\ \E episode \in EpisodeRecords \ {<< >>}, show_id \in ParentIds,
          db_ok \in BOOLEAN :
         /\ sink' = UpsertEpisode(sink, episode, show_id, db_ok)
         /\ lastRec' = [NoEpisode EXCEPT
                          !.kind = "handled", !.attempts = 1,
                          !.db_error = HasEpisodeId(episode) /\ ~db_ok,
                          !.wrote = HasEpisodeId(episode) /\ db_ok]
    /\ UNCHANGED <<queue, tracking, redelivered, unit>>
    /\ UNCHANGED batchVars
    /\ UNCHANGED callVars
    /\ UNCHANGED concVars

NextUpsert == CallUpsertEpisode

SpecUpsert == InitUpsert /\ [][NextUpsert]_vars

---------------------------------------------------------------------------
(* Specification of the Progress Tracker called by one caller at a time *)

\* The Import Records the tracking store can hold for an import.
TrackerRecords ==
    {NoRecord} \cup
    [Status : {IN_PROGRESS, COMPLETED, FAILED},
     CompletedEpisodes : 0..MaxCount,
     FailedEpisodes : 0..MaxCount,
     LastProcessedEpisodeId : {Absent, 1},
     EstimatedEpisodes : {-1}]

InitTracker ==
    /\ tracking \in TrackerRecords
    /\ lastOp = NoOp
    /\ catalog = << >>
    /\ default_batch_size = 1
    /\ started = FALSE
    /\ queue = EmptyBag
    /\ redelivered = 0
    /\ lastBatch = NoCall
    /\ unitsSent = 0
    /\ contsSent = 0
    /\ firstFailed = -1
    /\ contAfterFailure = FALSE
    /\ sink = {}
    /\ unit = NoDelivery
    /\ lastRec = NoEpisode
    /\ handlers = NoHandlers
    /\ ledger = NoLedger
    /\ CallsIdle

TrackerFrame ==
    /\ UNCHANGED <<queue, redelivered, sink, unit, lastRec, handlers, ledger>>
    /\ UNCHANGED batchVars
    /\ UNCHANGED callVars

\* update_episode_import_progress(import_id, episode_id, success), from its
\* read to its return.
CallUpdateProgress ==
    /\ \E episode_id \in 1..2, success \in BOOLEAN, store_ok \in BOOLEAN :
         /\ tracking # NoRecord
               => (IF success THEN tracking.CompletedEpisodes
                   ELSE tracking.FailedEpisodes) < MaxCount
         /\ tracking' = UpdateProgress(tracking, episode_id, success, store_ok)
         /\ lastOp' = [NoOp EXCEPT !.op = "update", !.before = tracking,
                                   !.episode_id = episode_id, !.success = success,
                                   !.store_ok = store_ok,
                                   !.raised = ~store_ok /\ ~TrackerSwallows]
    /\ TrackerFrame

\* complete_show_episodes_import(import_id, final_status), from its read to
\* its return.
CallCompleteImport ==
    /\ \E final_status \in {COMPLETED, FAILED}, store_ok \in BOOLEAN :
         /\ tracking' = CompleteImport(tracking, final_status, store_ok)
         /\ lastOp' = [NoOp EXCEPT !.op = "complete", !.before = tracking,
                                   !.final_status = final_status,
                                   !.store_ok = store_ok,
                                   !.raised = ~store_ok /\ ~TrackerSwallows]
    /\ TrackerFrame

\* start_show_episodes_import_tracking(import_id, estimated_episodes).
CallStartTracking ==
    /\ \E estimated \in {-1, 1} :
         /\ tracking' = StartTracking(estimated)
         /\ lastOp' = [NoOp EXCEPT !.op = "start", !.before = tracking,
                                   !.estimated = estimated]
    /\ TrackerFrame

NextTracker ==
    \/ CallUpdateProgress
    \/ CallCompleteImport
    \/ CallStartTracking

SpecTracker == InitTracker /\ [][NextTracker]_vars

---------------------------------------------------------------------------
(* Specification of one pass of the loop over episodes *)

\* The idle values of what the specifications below leave alone.
BatchIdle ==
    /\ catalog = << >>
    /\ default_batch_size = 1
    /\ started = FALSE
    /\ lastBatch = NoCall
    /\ unitsSent = 0
    /\ contsSent = 0
    /\ firstFailed = -1
    /\ contAfterFailure = FALSE
    /\ redelivered = 0
    /\ unit = NoDelivery
    /\ lastRec = NoEpisode
    /\ handlers = NoHandlers
    /\ ledger = NoLedger
    /\ lastOp = NoOp

\* A unit message is being handled and get_episodes has answered; the
\* message has a show_id (0 is one: the handler only drops None) and may
\* have the import_id of an import that is tracked; the table may hold an
\* earlier version of the episode.
InitRecord ==
    \E tracked \in BOOLEAN, show_id \in {0, 1} :
        LET m == ShowMessage(show_id, IF tracked THEN ImportId ELSE NoImport) IN
        /\ BatchIdle
        /\ queue = SetToBag({m})
        /\ tracking = IF tracked THEN StartTracking(-1) ELSE NoRecord
        /\ sink \in SUBSET {[id |-> 1, show_id |-> 9, name |-> "Old", runtime |-> 30]}
        /\ lastPass = [NoPass EXCEPT !.msg = m]
        /\ retryLog = NoRetryLog
        /\ lastRetry = NoRetry
        /\ lastUpdates = NoUpdates
        /\ lastSweep = NoSweep

NextRecordPass == HandleEpisode

SpecRecord == InitRecord /\ [][NextRecordPass]_vars

---------------------------------------------------------------------------
(* Specification of the retry wrapper and its attempt log *)

InitRetry ==
    /\ BatchIdle
    /\ queue = EmptyBag
    /\ tracking = NoRecord
    /\ sink = {}
    /\ CallsIdle

NextRetry == CallWithRetry

SpecRetry == InitRetry /\ [][NextRetry]_vars

---------------------------------------------------------------------------
(* Specification of get_updates *)

InitUpdates ==
    /\ BatchIdle
    /\ queue = EmptyBag
    /\ tracking = NoRecord
    /\ sink = {}
    /\ CallsIdle

NextUpdates == GetUpdates

SpecUpdates == InitUpdates /\ [][NextUpdates]_vars

---------------------------------------------------------------------------
(* Specification of retry_failed_operations *)

InitSweep ==
    /\ BatchIdle
    /\ queue = EmptyBag
    /\ tracking = NoRecord
    /\ sink = {}
    /\ CallsIdle

NextSweep == RetryFailedOperations

SpecSweep == InitSweep /\ [][NextSweep]_vars

---------------------------------------------------------------------------
(* Specification of the dispatch of a message on its action *)

\* Messages the handler can be handed: a continuation message, a
\* continuation message that carries a show_id as well, a unit message (of an
\* import or not, with or without show_id), and a message with a show_id,
\* another action and the fields of a batch.
DispatchMessages ==
    LET conts == {NextBatchMessage(ImportId, b, MaxBatchSize) : b \in 0..1}
    IN conts
       \cup {[m EXCEPT !.show_id = 1] : m \in conts}
       \cup {ShowMessage(1, ImportId), ShowMessage(1, NoImport),
             ShowMessage(Absent, ImportId)}
       \cup {[ShowMessage(1, ImportId) EXCEPT !.action = "other",
                                               !.batch_number = 1,
                                               !.batch_size = MaxBatchSize]}

\* One message in EPISODES_QUEUE, an import being tracked over a catalog of
\* one show, nothing handled yet.
InitDispatch ==
    /\ catalog = <<1>>
    /\ default_batch_size = MaxBatchSize
    /\ started = TRUE
    /\ queue \in {SetToBag({m}) : m \in DispatchMessages}
    /\ tracking = StartTracking(-1)
    /\ redelivered = 0
    /\ lastBatch = NoCall
    /\ unitsSent = 0
    /\ contsSent = 0
    /\ firstFailed = -1
    /\ contAfterFailure = FALSE
    /\ sink = {}
    /\ unit = NoDelivery
    /\ lastRec = NoEpisode
    /\ handlers = NoHandlers
    /\ ledger = NoLedger
    /\ lastOp = NoOp
    /\ CallsIdle

NextDispatch ==
    \/ \E m \in BagToSet(queue) : HandleBatchMessage(m)
    \/ \E m \in BagToSet(queue) : ReceiveUnit(m)
    \/ ProcessRecord

SpecDispatch == InitDispatch /\ [][NextDispatch]_vars

---------------------------------------------------------------------------
(* Properties of the bulk import *)

CeilDiv(n, k) == (n + k - 1) \div k

Min(a, b) == IF a < b THEN a ELSE b

ChainDone == started /\ \A m \in BagToSet(queue) : ~IsBatchMessage(m)

NoFailures == firstFailed = -1 /\ redelivered = 0

AllKeyed == \A i \in 1..Len(catalog) : catalog[i] # NoRowKey

\* The unit messages and the positions of the continuation messages among
\* the messages the last batch call uploaded.
LastUnits == SelectSeq(lastBatch.call.sent, LAMBDA m : ~IsBatchMessage(m))

LastConts == {i \in 1..Len(lastBatch.call.sent) : IsBatchMessage(lastBatch.call.sent[i])}

\* The rows at the positions batch b of size k covers, and those with a RowKey.
Window(b, k) ==
    SubSeq(catalog, Min(b * k, Len(catalog)) + 1, Min(b * k + k, Len(catalog)))

KeyedOf(rows) == SelectSeq(rows, LAMBDA e : e # NoRowKey)

\* C1 (as stated): for a catalog of n rows, all with their identifier, and
\* batch size k, a chain run from batch 0 with every continuation handled
\* once and no failure emits n unit messages and ceil(n/k) - 1 continuation
\* messages, and its last batch has has_more = false.
C1_BatchCompletenessCeil ==
    (ChainDone /\ NoFailures /\ AllKeyed /\ Len(catalog) >= 1) =>
        /\ unitsSent = Len(catalog)
        /\ contsSent = CeilDiv(Len(catalog), default_batch_size) - 1
        /\ ~lastBatch.call.has_more

\* C1 (amended): the same chain emits n unit messages and floor(n/k)
\* continuation messages, and its last batch has has_more = false.
C1_BatchCompleteness ==
    (ChainDone /\ NoFailures /\ AllKeyed) =>
        /\ unitsSent = Len(catalog)
        /\ contsSent = Len(catalog) \div default_batch_size
        /\ ~lastBatch.call.has_more
        /\ lastBatch.call.collected < default_batch_size

C1_Witness ==
    /\ ChainDone /\ NoFailures /\ AllKeyed
    /\ Len(catalog) >= 2
    /\ Len(catalog) % default_batch_size = 0
    /\ contsSent = Len(catalog) \div default_batch_size
    /\ unitsSent = Len(catalog)

\* C2: a batch call that collects at least one but fewer than batch_size
\* rows emits their unit messages, enqueues no continuation and leaves the
\* Import Record COMPLETED.
C2_PartialBatchCompletes ==
    LET c == lastBatch.call IN
    (c.enumerated /\ ~c.raised /\ c.collected >= 1 /\ c.collected < c.batch_size
        /\ c.keyed = c.collected) =>
        /\ Len(LastUnits) = c.keyed
        /\ LastConts = {}
        /\ lastBatch.status_after = COMPLETED

\* C3: a batch call enqueues a continuation iff it collected exactly
\* batch_size rows (and no upload of the call raised); there is at most one,
\* it carries the call's import_id and batch_size and batch_number + 1, and
\* it is the last message of the call, after the unit message of every row
\* of the batch that has a RowKey.
C3_ContinuationIffFull ==
    LET c == lastBatch.call IN
    /\ Cardinality(LastConts) <= 1
    /\ (LastConts # {}) <=> (c.enumerated /\ c.collected = c.batch_size /\ ~c.raised)
    /\ \A i \in LastConts :
         /\ c.sent[i] = NextBatchMessage(c.import_id, c.batch_number + 1, c.batch_size)
         /\ i = Len(c.sent)
         /\ Len(LastUnits) = c.keyed
         /\ \A j \in 1..(i - 1) : ~IsBatchMessage(c.sent[j])

C3_Witness ==
    /\ LastConts # {}
    /\ Len(LastUnits) >= 1
    /\ lastBatch.call.batch_number >= 1

\* C4: a batch call that collects no row enqueues nothing, hands COMPLETED to
\* the Progress Tracker (which leaves the record COMPLETED unless the
\* tracking store fails) and returns normally.
C4_EmptyBatchCompletes ==
    LET c == lastBatch.call IN
    (c.enumerated /\ c.collected = 0) =>
        /\ c.sent = <<>>
        /\ c.calls = 0
        /\ ~c.raised
        /\ c.complete = COMPLETED
        /\ (lastBatch.store_ok => lastBatch.status_after = COMPLETED)

C4_Witness ==
    /\ lastBatch.call.enumerated
    /\ lastBatch.call.collected = 0
    /\ lastBatch.call.batch_number >= 1
    /\ lastBatch.status_after = COMPLETED

\* C5: when the upload of one unit message raises, the call still attempts
\* every other row of the batch and the continuation (if the batch is full),
\* and does not raise.
C5_EnqueueFailureIsolated ==
    LET c == lastBatch.call IN
    (c.failed_upload = "unit") =>
        /\ c.calls = c.keyed + (IF c.collected = c.batch_size THEN 1 ELSE 0)
        /\ Len(LastUnits) = c.keyed - 1
        /\ (c.collected = c.batch_size => LastConts # {})
        /\ ~c.raised

\* C6 (as stated): a row without identifier takes no slot of the batch: a
\* call with at least batch_size identified rows after its skipped prefix
\* emits batch_size unit messages, and has_more tells whether it did.
C6_MissingIdTakesNoSlot ==
    LET c == lastBatch.call
        rest == SubSeq(catalog, Min(c.batch_number * c.batch_size, Len(catalog)) + 1,
                       Len(catalog))
    IN (c.enumerated /\ ~c.raised) =>
        /\ Len(KeyedOf(rest)) >= c.batch_size => Len(LastUnits) = c.batch_size
        /\ c.has_more <=> Len(LastUnits) = c.batch_size

\* C6 (amended): a row without identifier gets no unit message but takes a
\* slot: the call collects the rows at positions b*k+1 .. b*k+k whatever their
\* keys, has_more tells whether there were k of them, and the unit messages
\* are those of the rows among them that have a RowKey, in order.
C6_MissingIdSkippedAtDispatch ==
    LET c == lastBatch.call
        w == Window(c.batch_number, c.batch_size)
    IN c.enumerated =>
        /\ c.collected = Len(w)
        /\ c.keyed = Len(KeyedOf(w))
        /\ Len(LastUnits) <= c.keyed
        /\ \A i \in 1..Len(LastUnits) :
              LastUnits[i] = ShowMessage(KeyedOf(w)[i], c.import_id)
        /\ ~c.raised => /\ Len(LastUnits) = c.keyed
                        /\ c.has_more <=> Len(w) = c.batch_size

C6_Witness ==
    LET c == lastBatch.call IN
    /\ c.enumerated /\ ~c.raised
    /\ c.keyed >= 1
    /\ c.keyed < c.collected
    /\ c.has_more
    /\ Len(LastUnits) < c.batch_size

\* C7 (as stated): a batch call that raises marks the Import Record FAILED
\* and re-raises, and after it no continuation message for a later batch is
\* ever enqueued.
C7_FailureEndsContinuation ==
    /\ lastBatch.call.raised =>
         /\ lastBatch.call.complete = FAILED
         /\ (lastBatch.store_ok => lastBatch.status_after = FAILED)
    /\ ~contAfterFailure

\* C7 (amended): a batch call that raises hands FAILED to the Progress
\* Tracker (the record is FAILED unless the tracking store fails) and
\* enqueues no continuation itself; a continuation for a later batch is
\* enqueued afterwards only when a continuation message is delivered again.
C7_FailureMarksFailed ==
    /\ lastBatch.call.raised =>
         /\ lastBatch.call.complete = FAILED
         /\ (lastBatch.store_ok => lastBatch.status_after = FAILED)
         /\ LastConts = {}
    /\ contAfterFailure => redelivered >= 1

C7_Witness ==
    /\ lastBatch.call.raised
    /\ lastBatch.call.batch_number >= 1
    /\ lastBatch.call.failed_upload = "unit"
    /\ lastBatch.status_after = FAILED

\* C8 (as stated): when the handling of a unit message of an import has
\* gone through all its records and the tracking store has not failed, the
\* Import Record's failed count has grown by the number of records (with
\* an id) whose persistence failed and its completed count by the number of
\* records that were persisted.
C8_PartialFailureIsolation ==
    (/\ unit.outcome = "ok"
     /\ IsTracked(unit.msg)
     /\ ~unit.store_fault)
    => /\ unit.failed_delta = unit.failed
       /\ unit.completed_delta = unit.persisted

\* C9 (as stated): a record of an import whose upsert ended in an error of
\* the sink has been tried max_attempts = 3 times and is not recorded as a
\* success.
C9_SinkErrorRetriedAndReported ==
    (lastRec.kind = "handled" /\ lastRec.db_error /\ lastRec.tracked # "none")
    => /\ lastRec.attempts = DatabaseWriteAttempts
       /\ lastRec.tracked # "success"

\* C10: for every episode with an id and every show id, upserting twice in
\* a row gives the table that upserting once gives, whether or not a row
\* with the id was there before; afterwards exactly one row has the
\* episode's id, it belongs to the given show, and the rows with other ids
\* are the ones that were there before.
C10_UpsertIdempotent ==
    \A episode \in EpisodeRecords \ {<< >>}, show_id \in ParentIds :
        HasEpisodeId(episode) =>
            LET once == UpsertEpisode(sink, episode, show_id, TRUE)
                twice == UpsertEpisode(once, episode, show_id, TRUE)
            IN /\ twice = once
               /\ Cardinality({row \in once : row.id = episode.id}) = 1
               /\ \A row \in once : row.id = episode.id => row.show_id = show_id
               /\ {row \in once : row.id # episode.id}
                    = {row \in sink : row.id # episode.id}

\* An upsert has just updated a row that was there before (it keeps a
\* column the episode does not carry), next to a row with another id, and
\* upserting the same episode again changes nothing.
C10_Witness ==
    /\ lastRec.wrote
    /\ Cardinality(sink) >= 2
    /\ \E row \in sink : Has(row, "runtime") /\ row.name = "Pilot"
    /\ \E show_id \in ParentIds :
          UpsertEpisode(sink, [id |-> 1, name |-> "Pilot"], show_id, TRUE) = sink

\* C18: once start_get_all_shows_episodes has run, the tracking store holds
\* a record for the import with both counters 0, no last item and an
\* estimate of -1, whatever record was there before and even when the
\* enumeration of batch 0 has raised (tracking is started before the batch is
\* enumerated); the record is IN_PROGRESS as long as no batch call has
\* closed the import.
C18_StartTrackingResets ==
    started
    => /\ tracking # NoRecord
       /\ tracking.CompletedEpisodes = 0
       /\ tracking.FailedEpisodes = 0
       /\ tracking.LastProcessedEpisodeId = Absent
       /\ tracking.EstimatedEpisodes = -1
       /\ (/\ lastBatch.call.batch_number = 0
           /\ lastBatch.call.complete = "none"
           /\ ~lastBatch.call.raised)
          => tracking.Status = IN_PROGRESS

\* An import has started over the record of an earlier import, and its
\* batch 0 has sent its messages.
C18_Witness ==
    /\ started
    /\ lastOp.op = "start"
    /\ lastOp.before = PriorRecord
    /\ lastBatch.call.batch_number = 0
    /\ lastBatch.call.keyed >= 1
    /\ tracking = StartTracking(-1)

\* C20: a delivery of a unit message (a JSON mapping) without show_id returns normally and
\* the message leaves the queue; no call of the upstream API, no upsert and
\* no tracker call is made: the episodes table and the Import Record are as
\* they were.
C20_DroppedUnit ==
    (/\ unit.active \/ unit.outcome # "none"
     /\ unit.msg # MalformedMessage
     /\ unit.msg.show_id = Absent)
    => /\ unit.outcome = "dropped"
       /\ ~unit.active
       /\ unit.api_calls = 0
       /\ unit.persisted = 0
       /\ unit.completed_delta = 0
       /\ unit.failed_delta = 0
       /\ lastRec = NoEpisode
       /\ sink = {}
       /\ tracking = (IF IsTracked(unit.msg) THEN StartTracking(-1) ELSE NoRecord)
       /\ queue = EmptyBag
       /\ redelivered = 0

\* A message carrying the import_id of an import and no show_id has been
\* dropped.
C20_Witness ==
    /\ unit.outcome = "dropped"
    /\ unit.msg.show_id = Absent
    /\ IsTracked(unit.msg)
    /\ tracking = StartTracking(-1)
    /\ queue = EmptyBag

\* The message of the delivery is still in the queue, unless the platform
\* has used up its deliveries.
Redeliverable == BagIn(unit.msg, queue) \/ redelivered = MaxRedeliver

\* C21: a delivery in which TVMazeAPI.get_episodes raises ends by raising
\* (the message stays with the platform for another delivery); no record
\* is handled in it: nothing is upserted and the Import Record is not updated.
C21_FetchErrorPropagates ==
    unit.fetch = "error"
    => /\ unit.outcome = "raised"
       /\ ~unit.active
       /\ unit.api_calls = 1
       /\ unit.persisted = 0
       /\ unit.failed = 0
       /\ unit.completed_delta = 0
       /\ unit.failed_delta = 0
       /\ lastRec = NoEpisode
       /\ Redeliverable

\* The fetch has raised in the delivery of a message of the import, and the
\* message is in the queue again.
C21_Witness ==
    /\ unit.fetch = "error"
    /\ unit.outcome = "raised"
    /\ IsTracked(unit.msg)
    /\ BagIn(unit.msg, queue)
    /\ redelivered = 1
    /\ tracking = StartTracking(-1)
    /\ sink = {}

\* C22: a delivery of a message whose body is no JSON raises (the message
\* stays with the platform) once, without a call of the enumeration, of the
\* upstream API, of the repository or of the tracker.
C22_ParseErrorPropagates ==
    ((unit.active \/ unit.outcome # "none") /\ unit.msg = MalformedMessage)
    => /\ unit.outcome = "raised"
       /\ ~unit.active
       /\ unit.fetch = "none"
       /\ unit.api_calls = 0
       /\ unit.persisted = 0
       /\ unit.completed_delta = 0
       /\ unit.failed_delta = 0
       /\ lastRec = NoEpisode
       /\ lastBatch = NoCall
       /\ sink = {}
       /\ tracking = NoRecord
       /\ Redeliverable

\* The message that is no JSON has been delivered and is in the queue again.
C22_Witness ==
    /\ unit.msg = MalformedMessage
    /\ unit.outcome = "raised"
    /\ BagIn(MalformedMessage, queue)
    /\ redelivered = 1

\* C26: a delivery in which TVMazeAPI.get_episodes returns None or an empty
\* list returns normally (the message leaves the queue unless the platform
\* delivers a duplicate); no record is handled in it: nothing is upserted
\* and the Import Record is not updated.
C26_EmptyFetchIsNoOp ==
    unit.fetch = "empty"
    => /\ unit.outcome = "empty"
       /\ ~unit.active
       /\ unit.api_calls = 1
       /\ unit.persisted = 0
       /\ unit.failed = 0
       /\ unit.completed_delta = 0
       /\ unit.failed_delta = 0
       /\ lastRec = NoEpisode
       /\ (BagIn(unit.msg, queue) => redelivered >= 1)

\* The fetch has returned nothing for a message of the import, which has
\* left the queue.
C26_Witness ==
    /\ unit.fetch = "empty"
    /\ unit.outcome = "empty"
    /\ IsTracked(unit.msg)
    /\ queue = EmptyBag
    /\ redelivered = 0
    /\ tracking = StartTracking(-1)
    /\ sink = {}

\* C25: an entry of the answer that is None or empty is skipped: no upsert
\* is attempted for it and the tracker is not called, with a success or
\* with a failure; the loop goes on, and the delivery ends normally after
\* the last entry.
C25_InvalidRecordSkipped ==
    /\ lastRec.empty
       => /\ lastRec.kind = "skipped"
          /\ lastRec.attempts = 0
          /\ ~lastRec.wrote
          /\ ~lastRec.db_error
          /\ lastRec.tracked = "none"
    /\ unit.skipped > 0
       => /\ unit.left > 0 => unit.active
          /\ unit.left = 0 => unit.outcome = "ok"

\* In the delivery of a message of the import an entry was skipped, and the
\* entry after it has been upserted and reported to the tracker.
C25_Witness ==
    /\ unit.skipped = 1
    /\ IsTracked(unit.msg)
    /\ lastRec.kind = "handled"
    /\ lastRec.wrote
    /\ lastRec.tracked = "success"
    /\ unit.persisted = 1
    /\ unit.completed_delta = 1

\* C27 as stated: a unit message without import_id never has the tracker
\* called; with an import_id every record that was upserted is reported as
\* a success and every record whose retries are exhausted as a failure.
C27_TrackedIffImportId ==
    lastRec.kind = "handled"
    => /\ unit.msg.import_id = NoImport
          => (lastRec.tracked = "none" /\ tracking = NoRecord)
       /\ unit.msg.import_id # NoImport
          => /\ lastRec.wrote => lastRec.tracked = "success"
             /\ lastRec.exhausted => lastRec.tracked = "failure"

\* C27: a unit message without import_id never has the tracker called; with
\* an import_id every record that was upserted is reported as a success,
\* and every record whose retries are exhausted is reported as a failure
\* when it has an id and is not reported when it has none.
C27_TrackedIffImportIdAndEpisodeId ==
    lastRec.kind = "handled"
    => /\ unit.msg.import_id = NoImport
          => /\ lastRec.tracked = "none"
             /\ tracking = NoRecord
             /\ unit.completed_delta = 0
             /\ unit.failed_delta = 0
             /\ ~unit.store_fault
       /\ unit.msg.import_id # NoImport
          => /\ lastRec.wrote => lastRec.tracked = "success"
             /\ (lastRec.exhausted /\ lastRec.has_id) => lastRec.tracked = "failure"
             /\ (lastRec.exhausted /\ ~lastRec.has_id) => lastRec.tracked = "none"

\* A record of a message without import_id has exhausted its retries, and a
\* record was upserted before it in the same delivery.
C27_Witness ==
    /\ unit.msg.import_id = NoImport
    /\ lastRec.kind = "handled"
    /\ lastRec.exhausted
    /\ lastRec.has_id
    /\ lastRec.tracked = "none"
    /\ unit.persisted = 1

---------------------------------------------------------------------------
(* Properties of concurrent invocations *)

\* The episodes of a response upserted one after the other.
RECURSIVE PersistAll(_, _, _, _)
PersistAll(rows, response, show_id, pos) ==
    IF pos > Len(response) THEN rows
    ELSE PersistAll(RunWithRetry(rows, response[pos], show_id, AllOk, 1,
                                 DatabaseWriteAttempts).rows,
                    response, show_id, pos + 1)

\* The episodes table after each unit message has been delivered once.
SinkOnce == PersistAll(PersistAll({}, Response(1), 1, 1), Response(2), 2, 1)

\* No message is left and no invocation is running.
Quiescent ==
    /\ queue = EmptyBag
    /\ handlers = EmptyBag

\* C11: with a fixed answer of the upstream API and a sink that takes every
\* statement, once every delivery of the unit messages has ended (duplicate
\* deliveries included, run one after the other or concurrently with each
\* other and with other unit messages), the episodes table is the one that
\* a single delivery of each message leaves.
C11_RedeliveryIdempotent == Quiescent => sink = SinkOnce

\* All deliveries have ended, a unit message was delivered more than once
\* and tracker calls of two invocations have overlapped.
C11_Witness ==
    /\ Quiescent
    /\ redelivered >= 1
    /\ ledger.processed >= 4
    /\ ledger.overlapped

\* The outcomes an Import Record has counted.
Counted(rec) == rec.CompletedEpisodes + rec.FailedEpisodes

AllIdle == handlers = EmptyBag

UnitPending == \E m \in BagToSet(queue) : ~IsBatchMessage(m)

\* No continuation message has been delivered yet.
EnumerationPending ==
    /\ redelivered = 0
    /\ \E m \in BagToSet(queue) : IsBatchMessage(m)

\* C12: whenever the Import Record is COMPLETED, no tracker calls have
\* overlapped, the tracking store has not failed and no invocation is
\* running, the counters add up to the number of episodes processed for the
\* import and no unit message of the import is still pending.
C12_ConservationAtCompleted ==
    (/\ tracking.Status = COMPLETED
     /\ ~ledger.overlapped
     /\ ~ledger.store_fault
     /\ AllIdle)
    => (Counted(tracking) = ledger.processed /\ ~UnitPending)

\* C13: once the Import Record is COMPLETED or FAILED no step changes its
\* counters.
C13_CountersFrozen ==
    [][tracking.Status \in {COMPLETED, FAILED}
       => /\ tracking'.CompletedEpisodes = tracking.CompletedEpisodes
          /\ tracking'.FailedEpisodes = tracking.FailedEpisodes]_vars

\* C14 as stated: while the Import Record is IN_PROGRESS its counters are
\* non-negative and no step decreases one, under any interleaving of
\* concurrent progress updates.
C14_CountersNeverDecrease ==
    [][tracking.Status = IN_PROGRESS
       => /\ tracking'.CompletedEpisodes >= tracking.CompletedEpisodes
          /\ tracking'.FailedEpisodes >= tracking.FailedEpisodes
          /\ tracking'.CompletedEpisodes >= 0
          /\ tracking'.FailedEpisodes >= 0]_vars

\* C14: while the Import Record is IN_PROGRESS its counters are non-negative,
\* and no step decreases one as long as no two tracker calls for the import
\* have overlapped.
C14_CountersNeverDecreaseUnlessOverlap ==
    [][tracking.Status = IN_PROGRESS
       => /\ tracking'.CompletedEpisodes >= 0
          /\ tracking'.FailedEpisodes >= 0
          /\ ~ledger'.overlapped
               => /\ tracking'.CompletedEpisodes >= tracking.CompletedEpisodes
                  /\ tracking'.FailedEpisodes >= tracking.FailedEpisodes]_vars

\* Two invocations have run side by side and counted three episodes without
\* any of their tracker calls overlapping.
C14_Witness ==
    /\ tracking.Status = IN_PROGRESS
    /\ ~ledger.overlapped
    /\ tracking.CompletedEpisodes = 3
    /\ \E h \in BagToSet(handlers) : h.pc = "persist"

\* C15: the write-back of a tracker call replaces the stored record by the
\* one computed from the record the call read, whatever another call has
\* written in between: no version or condition guards the write (the
\* tracking store not failing).
C15_WriteIgnoresInterveningWrite ==
    [][\A h \in BagToSet(handlers) :
          (/\ h.pc = "write"
           /\ handlers' = Step(handlers, h, NextRecord(h))
           /\ ~ledger'.store_fault)
          => tracking' = ApplyJob(h.job, h.seen)]_vars

\* Two progress updates of concurrent invocations have both returned, the
\* tracking store never failed and no other tracker call has run, and the
\* counters have grown by one.
C15_Witness ==
    /\ \A h \in BagToSet(handlers) : h.pc \notin {"read", "write"}
    /\ EnumerationPending
    /\ ~ledger.store_fault
    /\ ledger.processed = 2
    /\ Counted(tracking) = 1

\* The number of invocations that are inside a tracker call.
InTrackerCall(running) ==
    BagCardinality([h \in {v \in BagToSet(running) : v.pc \in {"read", "write"}}
                      |-> CopiesIn(h, running)])

\* C19: a tracker call (progress update or completion) returns normally
\* whether the tracking store answers or fails: the invocation goes on to
\* its next episode, or ends, as after a call that succeeded, nothing raises
\* and no message goes back to the queue.
C19_StoreFaultSwallowed ==
    [][InTrackerCall(handlers') < InTrackerCall(handlers)
          => /\ \E h \in BagToSet(handlers) :
                  /\ h.pc \in {"read", "write"}
                  /\ handlers' = Step(handlers, h, NextRecord(h))
             /\ queue' = queue
             /\ ~ledger'.raised]_vars

\* Every delivery has ended with no duplicate: the tracking store has failed
\* during a tracker call and a count is missing, every episode is in the
\* table and no message was delivered again.
C19_Witness ==
    /\ Quiescent
    /\ ledger.store_fault
    /\ ~ledger.overlapped
    /\ redelivered = 0
    /\ Counted(tracking) < ledger.processed
    /\ sink = SinkOnce

---------------------------------------------------------------------------
(* Properties of the Progress Tracker *)

\* C16: a progress update for an import that has no Import Record writes
\* nothing (the store holds no record for the import afterwards either) and
\* returns normally, whether the store answers or fails.
C16_AbsentRecordNoWrite ==
    (lastOp.op = "update" /\ lastOp.before = NoRecord)
    => (tracking = NoRecord /\ ~lastOp.raised)

\* A progress update has run, the store answering, with no Import Record.
C16_Witness ==
    /\ lastOp.op = "update"
    /\ lastOp.before = NoRecord
    /\ lastOp.store_ok
    /\ tracking = NoRecord

\* C17: a progress update that runs alone on an existing Import Record, the
\* store answering, adds one to completed_count when the outcome is a
\* success and to failed_count otherwise, leaves the other counter, the
\* status and the estimate as they were, and sets last_processed_item_id to
\* the item.
C17_OutcomeIncrementsOneCounter ==
    (lastOp.op = "update" /\ lastOp.before # NoRecord /\ lastOp.store_ok)
    => /\ tracking.CompletedEpisodes =
            lastOp.before.CompletedEpisodes + (IF lastOp.success THEN 1 ELSE 0)
       /\ tracking.FailedEpisodes =
            lastOp.before.FailedEpisodes + (IF lastOp.success THEN 0 ELSE 1)
       /\ tracking.LastProcessedEpisodeId = lastOp.episode_id
       /\ tracking.Status = lastOp.before.Status
       /\ tracking.EstimatedEpisodes = lastOp.before.EstimatedEpisodes

\* A failure has been recorded on a record that had counted a success and
\* whose last item was another one.
C17_Witness ==
    /\ lastOp.op = "update"
    /\ lastOp.store_ok
    /\ ~lastOp.success
    /\ lastOp.before # NoRecord
    /\ lastOp.before.CompletedEpisodes = 1
    /\ lastOp.before.LastProcessedEpisodeId = 1
    /\ lastOp.episode_id = 2
    /\ tracking.FailedEpisodes = lastOp.before.FailedEpisodes + 1

---------------------------------------------------------------------------
(* Properties of one pass of the loop *)

\* The show id the three sources give, in the order embedded, linked,
\* message; Absent when none of them gives one.
FirstResolved(pass) ==
    IF pass.input.embedded # Absent THEN pass.input.embedded
    ELSE IF pass.input.linked # Absent THEN pass.input.linked
    ELSE IF pass.msg.show_id # 0 THEN pass.msg.show_id
    ELSE Absent

\* C23: the episode is stored under the first show id that resolves, in the
\* order (a) the show embedded in the episode, (b) the id at the end of the
\* link to the show, (c) the show_id of the message: the row written has
\* that show_id, and the show_id of the message only when neither the
\* embedded show nor the link yields an id.
C23_FirstResolvedShowId ==
    (lastPass.done /\ lastPass.wrote) =>
        /\ FirstResolved(lastPass) # Absent
        /\ \E row \in sink :
              /\ row.id = lastPass.input.episode.id
              /\ row.show_id = FirstResolved(lastPass)
              /\ row.show_id = lastPass.msg.show_id
                    => (lastPass.input.embedded = Absent
                        /\ lastPass.input.linked = Absent)

\* An episode with an embedded show and a link that yield different ids has
\* been stored, over a row of another show.
C23_Witness ==
    /\ lastPass.done
    /\ lastPass.wrote
    /\ lastPass.input.embedded = 5
    /\ lastPass.input.linked = 7
    /\ lastPass.msg.show_id = 1
    /\ lastPass.rows_before # {}
    /\ \E row \in sink : row.id = 1 /\ row.show_id = 5

\* None of the three sources gives a show id.
Unresolved(pass) == FirstResolved(pass) = Absent

\* C24: an episode (with an id) for which none of the three sources gives a
\* show id is not stored, is not reported to the tracker as a success, and
\* is counted as failed in the Import Record exactly when the message has an
\* import_id (the tracking store working).
C24_UnresolvedCountsAsFailed ==
    (/\ lastPass.done
     /\ Unresolved(lastPass)
     /\ HasEpisodeId(lastPass.input.episode)
     /\ ~NullReference(lastPass.input.episode)
     /\ lastPass.store_ok) =>
        /\ ~lastPass.wrote
        /\ sink = lastPass.rows_before
        /\ lastPass.tracked # "success"
        /\ tracking # NoRecord =>
              tracking.CompletedEpisodes = lastPass.before.CompletedEpisodes
        /\ IsTracked(lastPass.msg) <=>
              /\ tracking # NoRecord
              /\ tracking.FailedEpisodes = lastPass.before.FailedEpisodes + 1

---------------------------------------------------------------------------
(* Properties of the retry wrapper *)

\* The calls of the last run that raised.
FailedCalls(run) == { i \in 1..run.invocations : run.results[i] # "ok" }

\* C28: with_retry calls the function at most max_attempts times; it stops
\* at the first call that returns and returns what that call returned; every
\* call that raised has one attempt record, with its error; after
\* max_attempts calls that raised, the exception of the last call is raised.
C28_BoundedRetry ==
    lastRetry.runs > 0 =>
        LET run == lastRetry
            returning == { i \in 1..run.max_attempts : run.results[i] = "ok" }
        IN
        /\ run.invocations \in 1..run.max_attempts
        /\ returning # {} =>
              /\ ~run.raised
              /\ run.invocations \in returning
              /\ \A i \in returning : run.invocations <= i
              /\ run.value = run.invocations
        /\ returning = {} =>
              /\ run.raised
              /\ run.invocations = run.max_attempts
              /\ run.error = run.results[run.max_attempts]
        /\ run.logged = Cardinality(FailedCalls(run))
        /\ \A i \in FailedCalls(run) :
              \E e \in retryLog :
                 /\ e.PartitionKey = "database_write"
                 /\ e.Identifier = run.identifier
                 /\ e.AttemptNumber = i
                 /\ e.ErrorMessage = run.results[i]
                 /\ e.AttemptTime = run.runs

\* A run whose three calls raised, the first and the last with different
\* errors.
C28_Witness ==
    /\ lastRetry.runs > 0
    /\ lastRetry.raised
    /\ lastRetry.invocations = DatabaseWriteAttempts
    /\ lastRetry.logged = DatabaseWriteAttempts
    /\ lastRetry.results[1] # lastRetry.results[DatabaseWriteAttempts]
    /\ lastRetry.error = lastRetry.results[DatabaseWriteAttempts]

\* C29: the attempt log is append-only: a run of a wrapped function leaves
\* every record of the log as it is and adds one record for each attempt it
\* logs, also when the same operation and identifier fail at the same
\* attempt number in a later delivery.
C29_AttemptLogAppendOnly ==
    [][/\ retryLog \subseteq retryLog'
       /\ Cardinality(retryLog') = Cardinality(retryLog) + lastRetry'.logged]_vars

---------------------------------------------------------------------------
(* Properties of get_updates *)

\* C30: get_updates enqueues one unit message without import_id for each
\* show of the updates whose upload does not raise; an upload that raises
\* neither keeps the other shows from being tried nor makes get_updates
\* raise; the value of the metric updates_processed is the number of
\* messages enqueued.
C30_UpdatesEnqueuedIndependently ==
    lastUpdates.fetch = "updates" =>
        LET enqueued == lastUpdates.updates \ lastUpdates.failing IN
        /\ ~lastUpdates.raised
        /\ lastUpdates.attempted = Cardinality(lastUpdates.updates)
        /\ queue = lastUpdates.queue_before
                     (+) SetToBag({ShowMessage(show_id, NoImport) : show_id \in enqueued})
        /\ \A m \in BagToSet(queue) : ~IsTracked(m) /\ ~IsBatchMessage(m)
        /\ lastUpdates.metric.metric_name = "updates_processed"
        /\ lastUpdates.metric.value = Cardinality(enqueued)

\* The upload of the first of three updated shows raised and the two others
\* were enqueued.
C30_Witness ==
    /\ lastUpdates.fetch = "updates"
    /\ lastUpdates.updates = {1, 2, 3}
    /\ lastUpdates.failing = {1}
    /\ lastUpdates.metric.value = 2
    /\ BagIn(ShowMessage(3, NoImport), queue)

---------------------------------------------------------------------------
(* Properties of retry_failed_operations *)

\* C31: the summary of retry_failed_operations adds up: successful_retries
\* + failed_retries = found_failed_operations = the number of entries of
\* retry_attempts; a retry that returns false or raises is counted as
\* failed, and every operation of the list is retried, whatever the retries
\* before it did.
C31_SweepSummaryAddsUp ==
    lastSweep.calls > 0 =>
        LET ops == lastSweep.failed_operations
            summary == lastSweep.summary
            succeeded == { i \in 1..Len(ops) : ops[i].retry = "true" }
        IN
        /\ ~lastSweep.raised
        /\ lastSweep.retried = Len(ops)
        /\ summary.found_failed_operations = Len(ops)
        /\ Len(summary.retry_attempts) = Len(ops)
        /\ summary.successful_retries + summary.failed_retries = Len(ops)
        /\ summary.successful_retries = Cardinality(succeeded)
        /\ \A i \in 1..Len(ops) :
              /\ summary.retry_attempts[i].operation = ops[i].operation_id
              /\ summary.retry_attempts[i].success = (i \in succeeded)

\* Three operations: the retry of the first raised, the second returned
\* False and the third returned True.
C31_Witness ==
    /\ lastSweep.calls > 0
    /\ Len(lastSweep.failed_operations) = 3
    /\ lastSweep.failed_operations[1].retry = "raises"
    /\ lastSweep.failed_operations[2].retry = "false"
    /\ lastSweep.failed_operations[3].retry = "true"
    /\ lastSweep.summary.successful_retries = 1
    /\ lastSweep.summary.failed_retries = 2

---------------------------------------------------------------------------
(* Properties of the health metric of get_updates *)

\* C32: after get_updates the record of the metric updates_processed is
\* healthy exactly when at least 95% of the updates were enqueued; it is
\* healthy when every update was enqueued.
C32_HealthyIffEnoughEnqueued ==
    (lastUpdates.fetch = "updates"
     /\ lastUpdates.metric.metric_name = "updates_processed") =>
        LET enqueued == Cardinality(lastUpdates.updates \ lastUpdates.failing)
            found == Cardinality(lastUpdates.updates)
        IN
        /\ lastUpdates.metric.is_healthy <=> (100 * enqueued >= 95 * found)
        /\ enqueued = found => lastUpdates.metric.is_healthy

---------------------------------------------------------------------------
(* Properties of what is reported as a success *)

\* C34: a success is recorded in the Import Record for an episode only if
\* its upsert took effect in the episodes table: an episode whose write
\* failed, whose show id could not be resolved, or which has no id is not
\* counted in CompletedEpisodes.
C34_SuccessOnlyIfWritten ==
    (/\ lastPass.done
     /\ tracking.CompletedEpisodes > lastPass.before.CompletedEpisodes) =>
        /\ lastPass.wrote
        /\ HasEpisodeId(lastPass.input.episode)
        /\ ~Unresolved(lastPass)
        /\ \E row \in sink : row.id = lastPass.input.episode.id

---------------------------------------------------------------------------
(* Properties of the status of the Import Record *)

\* C33: a terminal status is absorbing: once the Import Record of a started
\* import is COMPLETED or FAILED, no step changes its status, whatever
\* continuation messages are delivered again, whatever batches come back
\* empty and whatever tracker calls write their record back.
C33_TerminalStatusAbsorbing ==
    [][(started /\ tracking.Status \in {COMPLETED, FAILED})
          => tracking'.Status = tracking.Status]_vars

---------------------------------------------------------------------------
(* Properties of the chain under redelivery *)

\* The identifiers of the catalog rows that have one.
CatalogIds == {catalog[i] : i \in 1..Len(catalog)} \ {NoRowKey}

\* C35: delivering a continuation message again only produces duplicates. For
\* a catalog that does not change: every unit message ever enqueued is the
\* message of a catalog identifier, no batch number in a continuation message
\* or in a batch call exceeds ceil(n / batch_size), and once no continuation
\* message is left of a chain in which no call raised, every catalog
\* identifier has at least one unit message in the queue.
C35_RedeliveryOnlyDuplicates ==
    /\ \A m \in BagToSet(queue) :
          IF IsBatchMessage(m)
          THEN m.batch_number <= CeilDiv(Len(catalog), m.batch_size)
          ELSE m.show_id \in CatalogIds /\ m = ShowMessage(m.show_id, ImportId)
    /\ started =>
          lastBatch.call.batch_number
              <= CeilDiv(Len(catalog), lastBatch.call.batch_size)
    /\ (ChainDone /\ firstFailed = -1) =>
          \A id \in CatalogIds : BagIn(ShowMessage(id, ImportId), queue)

\* A chain over two identifiers or more has ended without a failure, a
\* continuation message was delivered twice and left a duplicate.
C35_Witness ==
    /\ ChainDone
    /\ firstFailed = -1
    /\ redelivered >= 1
    /\ Cardinality(CatalogIds) >= 2
    /\ \E m \in BagToSet(queue) : CopiesIn(m, queue) >= 2

\* C36: with a catalog that does not change, no message delivered twice and
\* no failure, the batches are disjoint and exhaustive: the call for batch b
\* uploads the unit messages of the catalog rows at positions
\* b*batch_size .. b*batch_size + batch_size - 1 that have an identifier, in
\* catalog order and never more than batch_size of them; no unit message is
\* in the queue twice, and when the chain has ended every catalog identifier
\* has exactly one.
C36_BatchesDisjointExhaustive ==
    LET c == lastBatch.call
        ids == KeyedOf(Window(c.batch_number, c.batch_size))
    IN NoFailures =>
        /\ c.enumerated =>
              /\ LastUnits = [i \in 1..Len(ids) |-> ShowMessage(ids[i], ImportId)]
              /\ Len(LastUnits) <= c.batch_size
              /\ AllKeyed =>
                    Len(LastUnits) = Len(Window(c.batch_number, c.batch_size))
        /\ \A m \in BagToSet(queue) : ~IsBatchMessage(m) => CopiesIn(m, queue) = 1
        /\ ChainDone =>
              \A id \in CatalogIds : CopiesIn(ShowMessage(id, ImportId), queue) = 1

\* A chain of two batches or more has ended without failure or redelivery,
\* and its last batch uploaded a unit message.
C36_Witness ==
    /\ ChainDone
    /\ NoFailures
    /\ lastBatch.call.batch_number >= 1
    /\ Len(LastUnits) >= 1
    /\ unitsSent >= 2

\* Every continuation message a step adds to the queue names the batch after
\* the one the step processed.
NextBatchFollows ==
    \A m \in BagToSet(queue') :
        (IsBatchMessage(m) /\ CopiesIn(m, queue') > CopiesIn(m, queue)) =>
            m.batch_number = lastBatch'.call.batch_number + 1

\* C37: the chain of an import terminates. Under fair delivery of the queued
\* continuation messages, a started import reaches a state from which no
\* continuation message is in the queue any more (none is handled or
\* enqueued again), and every continuation message enqueued along the chain
\* carries the batch number of the call that enqueued it plus one.
C37_ChainTerminates ==
    /\ started ~> []ChainDone
    /\ [][NextBatchFollows]_vars

\* A chain of three batches has ended without failure or redelivery.
C37_Witness ==
    /\ ChainDone
    /\ NoFailures
    /\ contsSent >= 2
    /\ lastBatch.call.batch_number = contsSent

\* C38: the counters never over-count: in every reachable state, whatever
\* the interleaving of the handlers, CompletedEpisodes + FailedEpisodes of
\* the Import Record is at most the number of progress updates started for
\* the import since its tracking started.
C38_NeverOverCount ==
    Counted(tracking) <= ledger.processed

\* Two progress updates overlapped and one increment was lost, and two more
\* updates that did not overlap have been counted since.
C38_Witness ==
    /\ ledger.overlapped
    /\ AllIdle
    /\ Counted(tracking) >= 2
    /\ Counted(tracking) < ledger.processed

---------------------------------------------------------------------------
(* Properties of the dispatch of a message on its action *)

\* A step that enumerated the catalog, one that fetched or persisted
\* episodes, and one that put a message in the queue.
BatchStep ==
    lastBatch' # lastBatch \/ unitsSent' # unitsSent \/ contsSent' # contsSent

UnitStep == unit' # unit \/ sink' # sink \/ lastRec' # lastRec

Enqueues == \E m \in BagToSet(queue') : CopiesIn(m, queue') > CopiesIn(m, queue)

\* C39: the discrimination of messages is total and exclusive. A step that
\* enumerates the catalog or enqueues a message handles a queued message
\* whose action is process_batch, with that message's import_id, batch_number
\* and batch_size, and fetches and persists nothing; a step that fetches or
\* persists handles a message whose action is not process_batch; so a message
\* with the action process_batch never reaches the upstream API or the
\* table, even when it carries a show_id, and no other message enumerates
\* or enqueues.
C39_DispatchExclusive ==
    [][/\ (BatchStep \/ Enqueues) =>
            /\ ~UnitStep
            /\ \E m \in BagToSet(queue) :
                  /\ m.action = ProcessBatch
                  /\ lastBatch'.call.import_id = m.import_id
                  /\ lastBatch'.call.batch_number = m.batch_number
                  /\ lastBatch'.call.batch_size = m.batch_size
       /\ UnitStep =>
            /\ unit'.msg.action # ProcessBatch
            /\ unit.active \/ unit'.msg \in BagToSet(queue)
            /\ unit.active => unit'.msg = unit.msg
       /\ (\A m \in BagToSet(queue) : m.action = ProcessBatch) /\ ~unit.active
            => ~UnitStep
      ]_vars

\* A continuation message that carries a show_id has been handled (and is
\* kept for another delivery): its batch was enumerated, nothing was fetched
\* and nothing persisted.
C39_Witness ==
    /\ lastBatch.call.enumerated
    /\ \E m \in BagToSet(queue) :
          /\ m.action = ProcessBatch
          /\ m.show_id # Absent
          /\ lastBatch.call.batch_number = m.batch_number
          /\ lastBatch.call.batch_size = m.batch_size
    /\ redelivered >= 1
    /\ unit = NoDelivery
    /\ sink = {}

====
